---- MODULE Spec2Model ----
(***************************************************************************)
(* A model of njones/api-mocked: the per-request pipeline (route table,    *)
(* request filters, multi-candidate retry, the response sequencer and the  *)
(* request state machine) and the configuration reload loop.               *)
(***************************************************************************)
EXTENDS Integers, Sequences, FiniteSets, TLC

\* ------------------------------------------------------------------ bounds
\* most responses declared by one request descriptor
MaxResp == 2
\* most values the seeded generator of one seed hands out
MaxDraws == 3
\* most request descriptors declared on the route
MaxCand == 2
\* most requests sent to one method of a route with several handlers
MaxReq == 2
\* most configuration loads the run loop performs
MaxLoads == 4
\* most requests whose Select steps run at the same time
MaxProc == 2
\* most listeners of one generation, most file changes, most drains
MaxSrv == 2
MaxEvents == 2
MaxDrains == 2
\* most failure records saved, and the seconds the clock counts
MaxSaves == 3
MaxClock == 2
\* most runs of the context-building step on one request
MaxBuilds == 2
\* most parts of a body template, and most requests that evaluate it
MaxParts == 2
MaxEvals == 2

\* the raw values one draw of the generator can yield; wide enough that
\* Int63n(2N) and the shuffle's Int31n(i+1) reach each of their outcomes
RawMax == 2 * MaxResp

\* ------------------------------------------------------------------ state
VARIABLES
    route,      \* Route.Request: the request descriptors of the path, in declaration order
    mux,        \* the compiled table: method -> [first, rest] candidates (multiResponse)
    resps,      \* per descriptor: the response slice shared by its handlers (shuffled in place)
    idx,        \* per handler <<descriptor, method>>: the counter captured by httpHandler
    rnd,        \* per handler: its generator, [seed, pos]
    tape,       \* per seed: the values the generator of that seed has yielded so far
    pc,         \* where the request in flight is
    rq,         \* the request in flight
    cand,       \* the descriptor whose chain is running
    retries,    \* the request-scoped retry list (context value CtxKeyRetries)
    hdrTodo,    \* checkRequestHeader: required header names the loop has not visited
    st,         \* reqState: [res, status, err, vars]
    w,          \* the response writer: [calls, body, hdr, cookies]
    served,     \* per handler: the response ids its Select steps returned, in order
    selLog,     \* the Select steps of the request in flight: <<descriptor, index>>
    attempts,   \* the candidates the request in flight was dispatched to, in order
    postLog,    \* the checkRequestPost runs of the request in flight
    nreq,       \* per method: requests accepted so far
    cap,        \* per method: how many requests the environment sends
    server,     \* ConfigHTTP of the listener: [jwt, proxy]
    ctxTok,     \* the token checkRequestJWT put in the request's context
    fwd,        \* the requests of the request in flight handed to proxy targets
    trace,      \* the states of the state machine the request in flight ran
    \* --- the run loop
    rpc,        \* where run() is
    cfg,        \* config: [servers, routes, valid] (valid: internal.svrCfgLoadValid)
    mgr,        \* reloadSliceManager: [s, r]
    handed,     \* the servers and routes of the config _http was last called with
    lastGood,   \* the servers and routes of the most recent successful parse
    loadLog,    \* the outcome of every decodeFile so far (TRUE: no error)
    errMw,      \* _http put the reload-error middleware in the listeners' chain
    lastAnswer, \* the last response of the listeners: [reloadError, after]
    \* --- requests running at the same time
    proc,       \* per goroutine: where its execOrder is, [pc, order, i, j, ti, tj]
    sel,        \* the Select steps finished: <<counter value, response id>>
    defers,     \* the functions deferred in the frame of run(), last first
    records,    \* the kinds of the failure records saved in the log dir, in order
    orch,       \* where run() is: "select", "notify", "drain", "load", "done", "panic"
    reloadCh,   \* config.reload (buffer of 1): for each signal, whether it was sent during a drain
    nev,        \* the file changes the watcher has seen
    shutdownCh, \* config.shutdown: [buf, closed]
    sup,        \* the goroutine that closes the completion channel: "recv", "wait", "end"
    stoppers,   \* whether the channels of stoppers are closed
    gor,        \* per listener, its shutdown goroutine: "listen", "shutdown", "end"
    wg,         \* the counter of the WaitGroup svr
    completion, \* whether the channel _http returned is closed
    era,        \* the drains that have ended
    cfgGen,     \* how often the files were decoded into the shared Config
    req,        \* the request in flight: [pc, on, status, body, survived]
    trig,       \* whether the signal that started the last reload cycle was sent during a drain
    logDir,     \* the files of the log dir: [t, kind, id], one for each name <t>-<kind>.txt
    saves,      \* the calls of save, in order: [t, kind]
    clock,      \* time.Now().Unix()
    listing,    \* the last output of the errors endpoint: [n, out], ids of records
    xreq,       \* the request st.r the context is built from: [method, ctype, parsed, len, pos, hdr, query, form]
    built,      \* the runs of the context-building step: [vars, before]
    tpl,        \* the body expression of the response: [wrap, orig, parts], parts appended to in place
    outs,       \* what each request got for the body: [status, body]
    decl,       \* route.Request as written: per descriptor the parts of its Method string, [name, pad]
    multi       \* the run of the route loop of _http: [state, table], table: method -> descriptors

reqVars == <<route, mux, resps, idx, rnd, tape, pc, rq, cand, retries, hdrTodo,
             st, w, served, selLog, attempts, postLog, nreq, cap, server, ctxTok,
             fwd, trace>>
runVars == <<rpc, cfg, mgr, handed, lastGood, loadLog, errMw, lastAnswer>>
conVars == <<proc, sel>>
panVars == <<defers, records>>
drnVars == <<orch, reloadCh, nev, shutdownCh, sup, stoppers, gor, wg, completion,
             era, cfgGen, req, trig>>
errVars == <<logDir, saves, clock, listing>>
ctxVars == <<xreq, built>>
tplVars == <<tpl, outs>>
cmpVars == <<decl, multi>>
moreVars == <<errVars, ctxVars, tplVars, cmpVars>>
auxVars == <<conVars, panVars, drnVars, moreVars>>
vars == <<reqVars, runVars, auxVars>>

\* ------------------------------------------------------------ configuration
Methods == {"GET", "POST"}
Orders == {"", "ordered", "unordered", "random"}
HeaderNames == {"A", "B"}
HeaderVals == {"a", "b"}
PostKeys == {"hello"}
PostVals == {"World", "Nope"}

\* RequestHTTP.seed: 0 is "unset" (httpHandler then seeds from the clock)
ConfigSeeds == {0, 100}
\* values time.Now().UnixNano() may return when a handler is built
TimeSeeds == {1001, 1002}
AllSeeds == (ConfigSeeds \ {0}) \cup TimeSeeds

\* RequestHTTP.Headers: a nil pointer, or a block holding a map name -> values
NoHeaders == [present |-> FALSE, data |-> <<>>]
HeaderBlock(d) == [present |-> TRUE, data |-> d]
\* RequestHTTP.Posted: a map field -> value (nil when not configured)
NoPosted == <<>>

\* ResponseHTTP.JWT: no outbound token
NoRespJWT == [present |-> FALSE, name |-> "", output |-> "", key |-> "",
              claims |-> <<>>]

\* ResponseHTTP: the k-th declared response of a descriptor, with its status,
\* header block, outbound token and body attribute
FullResponse(k, status, h, j, b) ==
    [id |-> k, status |-> status, hdrs |-> h, jwt |-> j, body |-> b, bad |-> FALSE]

\* a response whose body expression does not evaluate (an unknown variable)
BadBody(r) == [r EXCEPT !.bad = TRUE]

\* a response with a body and nothing else
Response(k, status) == FullResponse(k, status, NoHeaders, NoRespJWT, TRUE)
RespList(n) == [k \in 1..n |-> Response(k, "200")]

\* RequestHTTP.JWT: no inbound token policy
NoReqJWT == [present |-> FALSE, input |-> "", key |-> "", validate |-> "unset",
             keyVals |-> <<>>]

\* RequestHTTP
Descriptor(ms, o, s, h, p, rs) ==
    [methods |-> ms, order |-> o, seed |-> s, hdrs |-> h, posted |-> p, resp |-> rs,
     jwt |-> NoReqJWT]

\* a descriptor with an inbound token policy
WithJWT(d, j) == [d EXCEPT !.jwt = j]

\* requestJWT: where the token is read from, whether validation is requested
\* ("unset" is the nil pointer) and the claim values the policy requires
ReqJWT(in, k, v, kv) ==
    [present |-> TRUE, input |-> in, key |-> k, validate |-> v, keyVals |-> kv]

\* responseJWT: the configJWT it names, where the token goes, and its claims
\* (the attributes and the remaining payload, which MarshalJSON flattens)
RespJWT(n, out, k, cs) ==
    [present |-> TRUE, name |-> n, output |-> out, key |-> k, claims |-> cs]

\* ConfigHTTP.JWT and ConfigHTTP.Proxy: nil, or the block of the server
NoJWT == [present |-> FALSE, name |-> "", alg |-> "", secret |-> ""]
ConfigJWT(n, a, k) == [present |-> TRUE, name |-> n, alg |-> a, secret |-> k]
NoProxy == [present |-> FALSE, name |-> "", headers |-> NoHeaders]
ConfigProxy(n, h) == [present |-> TRUE, name |-> n, headers |-> h]

\* ConfigHTTP
Server(j, p) == [jwt |-> j, proxy |-> p]
PlainServer == Server(NoJWT, NoProxy)

\* the handlers _http builds: one httpHandler per descriptor and method
Handlers(rt) == {<<d, m>> : d \in 1..Len(rt), m \in Methods} \cap
                {h \in (1..Len(rt)) \X Methods : h[2] \in rt[h[1]].methods}

\* ------------------------------------------------------- route compilation
\* is[method]: how many descriptors name the method
MethodCount(rt, m) == Cardinality({i \in 1..Len(rt) : m \in rt[i].methods})

RegisteredMethods(rt) == {m \in Methods : MethodCount(rt, m) > 0}

\* multiResponse[method].hfs is made with MethodCount slots and descriptor i
\* (counted over the whole route) is stored at slot i: the store is in range
\* only if i <= MethodCount
CompileOK(rt) ==
    \A i \in 1..Len(rt) : \A m \in rt[i].methods : i <= MethodCount(rt, m)

\* the slots of one method after the fill loop (0: a slot never stored to)
Slots(rt, m) ==
    [i \in 1..MethodCount(rt, m) |-> IF m \in rt[i].methods THEN i ELSE 0]

\* "collect all responses": the first slot is mounted on the router, the
\* others are handed to checkRetries as the retry list
Compile(rt) ==
    [m \in RegisteredMethods(rt) |->
        [first |-> Slots(rt, m)[1], rest |-> Tail(Slots(rt, m))]]

\* ------------------------------------------------------------ the generator
\* rand.New(rand.NewSource(seed)): the values a generator yields are a
\* function of its seed and of how many it has yielded. tape[seed] holds the
\* values seen so far; a generator past the end of its tape draws a new one.
Draws(g, k) ==
    {s \in [1..k -> 0..(RawMax - 1)] :
        /\ g.pos + k <= MaxDraws
        /\ \A i \in 1..k :
              g.pos + i <= Len(tape[g.seed]) => s[i] = tape[g.seed][g.pos + i]}

TapeAfter(g, s) ==
    IF g.pos + Len(s) <= Len(tape[g.seed]) THEN tape
    ELSE [tape EXCEPT ![g.seed] = SubSeq(@, 1, g.pos) \o s]

Advance(g, k) == [g EXCEPT !.pos = @ + k]

\* a handler that seeds from the clock whatever the descriptor says
NewRand_ClockOnly(seed, now) == [seed |-> now, pos |-> 0]

\* httpHandler: req.seed, or the clock when it is 0
NewRand(seed, now) == [seed |-> IF seed = 0 THEN now ELSE seed, pos |-> 0]

Swap(a, i, j) == [a EXCEPT ![i] = a[j], ![j] = a[i]]

\* rand.Shuffle(n, swap): for i := n-1; i > 0; i-- { j := Intn(i+1); swap(i, j) }
\* s holds the n-1 values drawn, a the slice (1-based here)
RECURSIVE ShuffleFrom(_, _, _)
ShuffleFrom(a, s, i) ==
    IF i <= 0 THEN a
    ELSE LET j == s[Len(a) - i] % (i + 1)
         IN  ShuffleFrom(Swap(a, i + 1, j + 1), s, i - 1)

Shuffle(a, s) == ShuffleFrom(a, s, Len(a) - 1)

\* ------------------------------------------------------- the request filters
\* r.Header.Values(k)
HeaderValues(r, k) == r.hdr[k]

\* r.PostFormValue(k): the first posted value of k, "" when there is none
PostFormValue(r, k) ==
    IF k \in DOMAIN r.post /\ r.post[k] # <<>> THEN r.post[k][1] ELSE ""

\* a post filter that compares the wildcard like any other value
PostMismatch_NoWildcard(posted, r) ==
    \E k \in DOMAIN posted : posted[k] # PostFormValue(r, k)

\* checkRequestPost: some iteration of the loop over req.Posted calls notfound
PostMismatch(posted, r) ==
    \E k \in DOMAIN posted : posted[k] # "*" /\ posted[k] # PostFormValue(r, k)

\* checkRequestHeader, one key: chk starts at len(vals) and is decremented for
\* every pair (val, value) with val = "*" or val = value
HeaderHits(vals, values) ==
    Cardinality({p \in (1..Len(vals)) \X (1..Len(values)) :
                    vals[p[1]] = "*" \/ vals[p[1]] = values[p[2]]})

HeaderKeyOK(vals, values) ==
    /\ Len(vals) = Len(values)
    /\ Len(vals) - HeaderHits(vals, values) = 0

\* ------------------------------------------------------- the response writer
NewWriter == [calls |-> <<>>, body |-> <<>>, hdr |-> {}, cookies |-> {}]

\* w.WriteHeader(code); fmt.Fprint(w, out)
WriteResponse(wr, code, out) ==
    [wr EXCEPT !.calls = Append(@, code), !.body = Append(@, out)]

\* w.Header().Add(k, v) and w.Header().Set(k, v)
AddHeader(wr, k, v) == [wr EXCEPT !.hdr = @ \cup {<<k, v>>}]
SetHeader(wr, k, v) ==
    [wr EXCEPT !.hdr = {p \in @ : p[1] # k} \cup {<<k, v>>}]

\* http.SetCookie(w, &http.Cookie{Name: k, Value: v})
SetCookie(wr, k, v) == [wr EXCEPT !.cookies = @ \cup {<<k, v>>}]

\* http.Error(w, msg, code): Content-Type and X-Content-Type-Options are
\* set, replacing what the handler put there, then the status and the text
HttpError(wr, code, msg) ==
    WriteResponse(SetHeader(SetHeader(wr, "Content-Type", "text/plain; charset=utf-8"),
                            "X-Content-Type-Options", "nosniff"),
                  code, msg)

\* the status the client sees: the first WriteHeader wins; a handler that
\* returns without writing leaves net/http to send an empty 200
ClientStatus(wr) == IF wr.calls = <<>> THEN 200 ELSE wr.calls[1]

\* reqState: vars is set once the expression context is built
NewState == [res |-> Response(0, ""), status |-> 0, err |-> "", vars |-> FALSE]

\* strconv.Atoi on the status strings the configurations here use
NumericStatus == {"200", "404"}
Atoi(str) == IF str = "200" THEN 200 ELSE 404

\* what a handler writes for response id k of descriptor d, and what the
\* error writers write
Body(d, k) == <<d, k>>
ErrorBody(code) == <<0, code>>
\* fmt.Fprint(w, ""), and a token as the output (bodies are told apart by
\* their first component: a descriptor, 0 for an error, -1 for a token)
EmptyBody == <<>>
TokenBody(t) == <<-1, t>>

\* ------------------------------------------------------------------- tokens
\* a request without a token, a string that is not three segments, and a
\* token: its claims and the signature over them
NoToken == [kind |-> "none", claims |-> <<>>, sig |-> <<>>]
Malformed == [kind |-> "malformed", claims |-> <<>>, sig |-> <<>>]
Token(cs, sg) == [kind |-> "jwt", claims |-> cs, sig |-> sg]
\* an Authorization header whose scheme is not the key of the policy
OtherScheme == [kind |-> "scheme", claims |-> <<>>, sig |-> <<>>]

\* the signature of an HMAC method over the claims, under a key
Sign(alg, cs, key) == <<alg, cs, key>>

\* useJWT: the key the JWT middleware puts in the context (CtxKeySignature);
\* for an "hs" algorithm the bytes of the secret, nothing without a JWT block
NoKey == ""
UseJWT(srv) == IF srv.jwt.present THEN srv.jwt.secret ELSE NoKey

\* "$._internal." + cfgJWT.Name + ".key"
InternalKeyName(n) ==
    IF n = "jwt1" THEN "$._internal.jwt1.key" ELSE "$._internal.jwt2.key"

\* marshalJWT and responseJWT.MarshalJSON: the key is stored in the payload
\* under the internal name, the attributes and the payload are flattened
\* into the claims, and the claims are signed
MarshalJWT(cfgJWT, respJWT, key) ==
    LET payload == (InternalKeyName(cfgJWT.name) :> key) @@ respJWT.claims
    IN  Token(payload, Sign(cfgJWT.alg, payload, key))

\* jwtSigMap: the signing methods marshalJWT finds (of the HMAC family, which
\* is the one the servers here configure)
JwtSigMap == {"HS256", "HS384", "HS512"}

\* a nil *jwtgo.Token
NilToken == [nil |-> TRUE, claims |-> <<>>, valid |-> FALSE]

\* jwtgo.ParseWithClaims on a token string, with the key of the context:
\* no token for a string that does not split in three; else the token, valid
\* iff there is a key and the signature is the key's over the claims
ParseWithClaims(t, key) ==
    IF t.kind = "malformed"
    THEN [token |-> NilToken, err |-> "parse"]
    ELSE LET ok == key # NoKey /\ t.sig = Sign(t.sig[1], t.claims, key)
         IN  [token |-> [nil |-> FALSE, claims |-> t.claims, valid |-> ok],
              err |-> IF ok THEN "" ELSE "verify"]

\* a decoder that reports every parsed token as valid
DecodeValidation_AlwaysValid(tok) == "valid"

\* decodeJWT, validation requested: v := "invalid"; if token.Valid { v = "valid" }
DecodeValidation(tok) == IF tok.valid THEN "valid" ELSE "invalid"

\* decodeJWT: an error of ParseWithClaims is returned as it is when
\* validation is not requested
DecodeAborts(policy, err) == err # "" /\ policy.validate # "true"

\* a decoder that returns the error of a failed validation unwrapped
Warn_Unwrapped(err) == err

\* decodeJWT, validation requested: if err != nil { err = WarnError{err} }
Warn(err) == IF err # "" THEN "warn" ELSE ""

\* the locations the switch of decodeJWT knows
JwtInputs == {"auth", "cookie", "header", "query"}

\* decodeJWT, the switch on reqJWT.Input: the string jwtStr it reads from
\* what the request carries at the location. Under "auth" a value whose
\* scheme is not the key leaves jwtStr empty; elsewhere such a value is the
\* string itself, which is no token
JwtStr(policy, v) ==
    IF v.kind = "scheme"
    THEN IF policy.input = "auth" THEN NoToken ELSE Malformed
    ELSE v

\* decodeJWT: what it returns and does for a policy, the token string the
\* request carries where the policy reads, and the key of the context.
\* panic: token.Valid is read on a nil token
DecodeJWT(policy, v, key) ==
    LET t == JwtStr(policy, v) IN
    IF ~policy.present
    THEN [token |-> NilToken, err |-> "", hdr |-> "", panic |-> FALSE]
    ELSE IF policy.input \notin JwtInputs
    THEN \* ErrInvalidJWTLoc.F("input")
         [token |-> NilToken, err |-> "loc", hdr |-> "", panic |-> FALSE]
    ELSE IF t.kind = "none"
    THEN IF policy.input = "cookie"
         THEN \* r.Cookie: http.ErrNoCookie
              [token |-> NilToken, err |-> "cookie", hdr |-> "", panic |-> FALSE]
         ELSE \* jwtStr == ""
              [token |-> NilToken, err |-> "", hdr |-> "", panic |-> FALSE]
    ELSE LET p == ParseWithClaims(t, key) IN
         IF DecodeAborts(policy, p.err)
         THEN [token |-> p.token, err |-> p.err, hdr |-> "", panic |-> FALSE]
         ELSE IF policy.validate = "true"
         THEN IF p.token.nil
              THEN [token |-> p.token, err |-> p.err, hdr |-> "", panic |-> TRUE]
              ELSE [token |-> p.token,
                    err |-> Warn(p.err),
                    hdr |-> DecodeValidation(p.token), panic |-> FALSE]
         ELSE [token |-> p.token, err |-> p.err, hdr |-> "", panic |-> FALSE]

\* a filter that lets every error of the decoder through
Fatal_Never(err) == FALSE

\* checkRequestJWT: err != nil && !errors.As(err, &WarnError{})
Fatal(err) == err \notin {"", "warn"}

\* checkRequestJWT: a string claim the policy names has another value
ClaimMismatch(policy, cs) ==
    \E k \in DOMAIN cs : k \in DOMAIN policy.keyVals /\ cs[k] # policy.keyVals[k]

\* ------------------------------------------------------------------ proxies
\* r.Header.Set(k, val) for every value of every name of a header block
SetAll(h, block) ==
    IF ~block.present THEN h
    ELSE [k \in DOMAIN h |->
            IF k \in DOMAIN block.data /\ block.data[k] # <<>>
            THEN <<block.data[k][Len(block.data[k])]>>
            ELSE h[k]]

\* useProxy: the request handed to the reverse proxy, with the headers of the
\* response set on it first and the headers of the proxy block after
UseProxy(r, proxy, headers) ==
    [target |-> proxy.name, hdr |-> SetAll(SetAll(r.hdr, headers), proxy.headers)]

\* what the reverse proxy writes: the upstream's status and body
\* (its first component is -2)
UpstreamStatus == {200, 502}
ProxyBody(n) == <<-2, n>>

\* --------------------------------------------------------------- requests
\* the requests the environment sends: a registered method; header and form
\* data vary only where some descriptor of the route looks at them
Request(m, h, p, ok) ==
    [method |-> m, hdr |-> h, post |-> p, formOK |-> ok, token |-> NoToken]

\* a request carrying a token string where the policy of the route reads it
WithToken(r, t) == [r EXCEPT !.token = t]

NoHdr == [k \in HeaderNames |-> <<>>]
NoPost == [k \in PostKeys |-> <<>>]

\* the values a request may carry for header k, when the route looks at k
HeaderChoices(k) ==
    IF \/ \E i \in 1..Len(route) : k \in DOMAIN route[i].hdrs.data
       \/ server.proxy.present
    THEN {<<>>} \cup {<<v>> : v \in HeaderVals}
    ELSE {<<>>}

HeaderInputs == {h \in [HeaderNames -> {<<>>} \cup {<<v>> : v \in HeaderVals}] :
                    \A k \in HeaderNames : h[k] \in HeaderChoices(k)}

PostChoices(m) ==
    IF m = "POST" /\ \E i \in 1..Len(route) : route[i].posted # NoPosted
    THEN {<<>>} \cup {<<v>> : v \in PostVals}
    ELSE {<<>>}

\* a form that fails to parse is sent only to routes that read the form data
FormChoices(m) ==
    IF m = "POST" /\ \E i \in 1..Len(route) : route[i].posted # NoPosted
    THEN BOOLEAN ELSE {TRUE}

\* the keys tokens are signed with, the claims they carry, and the token
\* strings a client may present: none, a string that is no token, and the
\* tokens the encoder mints under either key
Keys == {"k1", "k2"}
ClaimSets == {[sub |-> "alice"], [sub |-> "bob"]}
Tokens ==
    {NoToken, Malformed} \cup
    {MarshalJWT(ConfigJWT("jwt1", "HS256", k), RespJWT("jwt1", "", "", cs), k) :
        k \in Keys, cs \in ClaimSets}

TokenChoices ==
    IF \E i \in 1..Len(route) : route[i].jwt.present
    THEN Tokens \cup
         (IF \E i \in 1..Len(route) : route[i].jwt.input = "auth"
          THEN {OtherScheme} ELSE {})
    ELSE {NoToken}

PlainRequests ==
    {Request(m, h, [k \in PostKeys |-> p], ok) :
        m \in DOMAIN mux, h \in HeaderInputs,
        p \in UNION {PostChoices(mm) : mm \in DOMAIN mux}, ok \in BOOLEAN}
    \cap
    {r \in [method : Methods, hdr : HeaderInputs,
            post : [PostKeys -> {<<>>} \cup {<<v>> : v \in PostVals}],
            formOK : BOOLEAN, token : {NoToken}] :
        /\ r.post["hello"] \in PostChoices(r.method)
        /\ r.formOK \in FormChoices(r.method)}

Requests == {WithToken(r, t) : r \in PlainRequests, t \in TokenChoices}

\* ------------------------------------------------------ the middleware chain
\* the chain _http builds for a descriptor: checkRequestJWT when JWT is set,
\* checkRequestPost when the method is POST, then checkRequestHeader when
\* Headers is set, then the handler
AfterPost(d) == IF route[d].hdrs.present THEN "header" ELSE "handler"
AfterJWT(d, m) == IF m = "POST" THEN "post" ELSE AfterPost(d)
EntryPC(d, m) == IF route[d].jwt.present THEN "jwt" ELSE AfterJWT(d, m)

\* where control is when the handler of descriptor d returns: back in the
\* loop of checkRequestHeader if the chain has one, else out of the chain
ReturnPC(d) == IF route[d].hdrs.present THEN "header" ELSE "done"

HeaderKeys(d) == DOMAIN route[d].hdrs.data

\* chi dispatches the request to the first candidate of its method, with
\* checkRetries putting the rest in the request's context
ServeHTTP ==
    /\ pc \in {"idle", "done", "panic"}
    /\ \E r \in Requests :
          /\ nreq[r.method] < cap[r.method]
          /\ rq' = r
          /\ nreq' = [nreq EXCEPT ![r.method] = @ + 1]
          /\ cand' = mux[r.method].first
          /\ retries' = mux[r.method].rest
          /\ attempts' = <<mux[r.method].first>>
          /\ hdrTodo' = HeaderKeys(mux[r.method].first)
          /\ pc' = EntryPC(mux[r.method].first, r.method)
    /\ w' = NewWriter
    /\ st' = NewState
    /\ selLog' = <<>>
    /\ postLog' = <<>>
    /\ ctxTok' = NilToken
    /\ fwd' = <<>>
    /\ trace' = <<>>
    /\ UNCHANGED <<route, mux, resps, idx, rnd, tape, served, cap, server, runVars, auxVars>>

\* checkRequestJWT, wrapped in WriteError: the token is decoded; an error
\* that is no warning and a claim that differs from the policy's end the
\* request with 500; a nil token is dereferenced
CheckRequestJWT ==
    /\ pc = "jwt"
    /\ LET d == DecodeJWT(route[cand].jwt, rq.token, UseJWT(server))
           wh == IF d.hdr = "" THEN w ELSE SetHeader(w, "x-jwt-validation", d.hdr)
       IN  IF d.panic
           THEN /\ pc' = "panic"
                /\ UNCHANGED <<w, ctxTok>>
           ELSE IF Fatal(d.err)
           THEN \* ErrMarshalJWT.F(err)
                /\ w' = HttpError(wh, 500, ErrorBody(500))
                /\ pc' = "done"
                /\ UNCHANGED ctxTok
           ELSE IF d.token.nil
           THEN \* token.Claims
                /\ pc' = "panic"
                /\ w' = wh
                /\ UNCHANGED ctxTok
           ELSE IF ClaimMismatch(route[cand].jwt, d.token.claims)
           THEN \* ErrInvalidJWTClaim
                /\ w' = HttpError(wh, 500, ErrorBody(500))
                /\ pc' = "done"
                /\ UNCHANGED ctxTok
           ELSE \* next.ServeHTTP(w, r.WithContext(ctx))
                /\ w' = wh
                /\ ctxTok' = d.token
                /\ pc' = AfterJWT(cand, rq.method)
    /\ UNCHANGED <<route, mux, resps, idx, rnd, tape, rq, cand, retries, hdrTodo,
                   st, served, selLog, attempts, postLog, nreq, cap, server, fwd,
                   trace, runVars, auxVars>>

\* checkRequestPost, wrapped in WriteError
CheckRequestPost ==
    /\ pc = "post"
    /\ IF ~rq.formOK
       THEN \* ErrParseForm.F(err) is neither a RetryError nor a HandlerError
            /\ w' = HttpError(w, 500, ErrorBody(500))
            /\ pc' = "done"
            /\ postLog' = Append(postLog, [cand |-> cand, out |-> "error"])
       ELSE IF PostMismatch(route[cand].posted, rq)
       THEN \* notfound(w, r)
            /\ w' = HttpError(w, 404, ErrorBody(404))
            /\ pc' = "done"
            /\ postLog' = Append(postLog, [cand |-> cand, out |-> "notfound"])
       ELSE \* next.ServeHTTP(w, r)
            /\ w' = w
            /\ pc' = AfterPost(cand)
            /\ postLog' = Append(postLog, [cand |-> cand, out |-> "next"])
    /\ UNCHANGED <<route, mux, resps, idx, rnd, tape, rq, cand, retries, hdrTodo,
                   st, served, selLog, attempts, nreq, cap, server, ctxTok, fwd,
                   trace, runVars, auxVars>>

\* a retry that runs the head of the retry list and leaves it on the list
WriteError404_NoPop ==
    IF retries # <<>>
    THEN /\ cand' = Head(retries)
         /\ retries' = retries
         /\ attempts' = Append(attempts, Head(retries))
         /\ hdrTodo' = HeaderKeys(Head(retries))
         /\ pc' = EntryPC(Head(retries), rq.method)
         /\ w' = w
    ELSE /\ w' = HttpError(w, 404, ErrorBody(404))
         /\ pc' = "done"
         /\ UNCHANGED <<cand, retries, attempts, hdrTodo>>

\* WriteError on an Ext404Error: ErrorRetryRequestWriter pops the next
\* candidate off the retry list of the request's context and runs its chain;
\* with no candidate left ErrorResponseWriter writes the 404
WriteError404 ==
    IF retries # <<>>
    THEN /\ cand' = Head(retries)
         /\ retries' = Tail(retries)
         /\ attempts' = Append(attempts, Head(retries))
         /\ hdrTodo' = HeaderKeys(Head(retries))
         /\ pc' = EntryPC(Head(retries), rq.method)
         /\ w' = w
    ELSE /\ w' = HttpError(w, 404, ErrorBody(404))
         /\ pc' = "done"
         /\ UNCHANGED <<cand, retries, attempts, hdrTodo>>

\* checkRequestHeader, wrapped in WriteError: one turn of the loop over
\* req.Headers.Data (a map: any order). A key that fails returns the 404
\* error; a key that passes calls next.ServeHTTP inside the loop
CheckRequestHeader ==
    /\ pc = "header"
    /\ IF hdrTodo = {}
       THEN /\ pc' = "done"
            /\ UNCHANGED <<cand, retries, attempts, hdrTodo, w>>
       ELSE \E k \in hdrTodo :
               IF HeaderKeyOK(route[cand].hdrs.data[k], HeaderValues(rq, k))
               THEN /\ hdrTodo' = hdrTodo \ {k}
                    /\ pc' = "handler"
                    /\ UNCHANGED <<cand, retries, attempts, w>>
               ELSE WriteError404
    /\ UNCHANGED <<route, mux, resps, idx, rnd, tape, rq, st, served, selLog,
                   postLog, nreq, cap, server, ctxTok, fwd, trace, runVars, auxVars>>

\* ------------------------------------------------------ the state machine
\* the handler running: the descriptor of the chain and the request's method
Handler == <<cand, rq.method>>

\* what execOrder leaves behind once it has its order value x (0-based) and
\* the slice a to read from
Selected(a, x) ==
    /\ st' = [st EXCEPT !.res = a[(x % Len(a)) + 1]]
    /\ served' = [served EXCEPT ![Handler] = Append(@, a[(x % Len(a)) + 1].id)]
    /\ selLog' = Append(selLog, <<cand, x % Len(a)>>)
    /\ trace' = Append(trace, "execOrder")
    /\ pc' = "prehook"

\* a panic in the handler (division by len(resps) = 0, Int63n(0)): it unwinds
\* through WriteError and every middleware; nothing is written for it
Panicked ==
    /\ pc' = "panic"
    /\ UNCHANGED <<st, served, selLog, trace>>

\* order "random": Int63n(len(resps) * 2)
ExecOrderRandom ==
    /\ UNCHANGED <<idx, resps>>
    /\ IF Len(resps[cand]) = 0
       THEN Panicked /\ UNCHANGED <<rnd, tape>>
       ELSE \E s \in Draws(rnd[Handler], 1) :
               /\ tape' = TapeAfter(rnd[Handler], s)
               /\ rnd' = [rnd EXCEPT ![Handler] = Advance(@, 1)]
               /\ Selected(resps[cand], s[1] % (Len(resps[cand]) * 2))

\* order "unordered": the counter, and a shuffle of the shared slice when the
\* counter is a multiple of len(resps)
ExecOrderUnordered ==
    /\ idx' = [idx EXCEPT ![Handler] = @ + 1]
    /\ IF Len(resps[cand]) = 0
       THEN Panicked /\ UNCHANGED <<rnd, tape, resps>>
       ELSE IF idx[Handler] % Len(resps[cand]) = 0
       THEN \E s \in Draws(rnd[Handler], Len(resps[cand]) - 1) :
               /\ tape' = TapeAfter(rnd[Handler], s)
               /\ rnd' = [rnd EXCEPT ![Handler] = Advance(@, Len(s))]
               /\ resps' = [resps EXCEPT ![cand] = Shuffle(@, s)]
               /\ Selected(Shuffle(resps[cand], s), idx[Handler])
       ELSE /\ UNCHANGED <<rnd, tape, resps>>
            /\ Selected(resps[cand], idx[Handler])

\* a counter read after the increment instead of before it
ExecOrderDefault_OffByOne ==
    /\ idx' = [idx EXCEPT ![Handler] = @ + 1]
    /\ UNCHANGED <<rnd, tape, resps>>
    /\ IF Len(resps[cand]) = 0
       THEN Panicked
       ELSE Selected(resps[cand], idx[Handler] + 1)

\* any other order: the counter
ExecOrderDefault ==
    /\ idx' = [idx EXCEPT ![Handler] = @ + 1]
    /\ UNCHANGED <<rnd, tape, resps>>
    /\ IF Len(resps[cand]) = 0
       THEN Panicked
       ELSE Selected(resps[cand], idx[Handler])

\* setup and execOrder: the Select step
ExecOrder ==
    /\ pc = "handler"
    /\ CASE route[cand].order = "random" -> ExecOrderRandom
         [] route[cand].order = "unordered" -> ExecOrderUnordered
         [] OTHER -> ExecOrderDefault
    /\ UNCHANGED <<route, mux, rq, cand, retries, hdrTodo, w, attempts, postLog,
                   nreq, cap, server, ctxTok, fwd, runVars, auxVars>>

\* execPrePluginRequestHTTP: no registered plugin implements PreRequestHTTP
ExecPrePluginRequestHTTP ==
    /\ pc = "prehook"
    /\ pc' = "delay"
    /\ trace' = Append(trace, "execPrePluginRequestHTTP")
    /\ UNCHANGED <<route, mux, resps, idx, rnd, tape, rq, cand, retries, hdrTodo,
                   st, w, served, selLog, attempts, postLog, nreq, cap, server,
                   ctxTok, fwd, runVars, auxVars>>

\* execDelay: sleeps, holding nothing
ExecDelay ==
    /\ pc = "delay"
    /\ pc' = "status"
    /\ trace' = Append(trace, "execDelay")
    /\ UNCHANGED <<route, mux, resps, idx, rnd, tape, rq, cand, retries, hdrTodo,
                   st, w, served, selLog, attempts, postLog, nreq, cap, server,
                   ctxTok, fwd, runVars, auxVars>>

\* the status string execStatus reads: "200" when the response has none
StatusOf(res) == IF res.status = "" THEN "200" ELSE res.status

\* execStatus: the status of the selected response; a status that is no
\* number clears the error and goes to execProxyHTTP
ExecStatus ==
    /\ pc = "status"
    /\ IF StatusOf(st.res) \in NumericStatus
       THEN /\ st' = [st EXCEPT !.status = Atoi(StatusOf(st.res))]
            /\ pc' = "respond"
       ELSE /\ st' = [st EXCEPT !.status = 0]
            /\ pc' = "proxy"
    /\ trace' = Append(trace, "execStatus")
    /\ UNCHANGED <<route, mux, resps, idx, rnd, tape, rq, cand, retries, hdrTodo,
                   w, served, selLog, attempts, postLog, nreq, cap, server,
                   ctxTok, fwd, runVars, auxVars>>

\* a proxy step after which the state machine goes on to the context states
ExecProxyHTTP_Continues ==
    /\ pc = "proxy"
    /\ IF server.proxy.present /\ server.proxy.name = StatusOf(st.res)
       THEN /\ fwd' = Append(fwd, UseProxy(rq, server.proxy, st.res.hdrs))
            /\ \E code \in UpstreamStatus :
                  w' = WriteResponse(w, code, ProxyBody(server.proxy.name))
       ELSE UNCHANGED <<fwd, w>>
    /\ trace' = Append(trace, "execProxyHTTP")
    /\ pc' = "respond"
    /\ UNCHANGED <<route, mux, resps, idx, rnd, tape, rq, cand, retries, hdrTodo,
                   st, served, selLog, attempts, postLog, nreq, cap, server,
                   ctxTok, runVars, auxVars>>

\* execProxyHTTP: with a proxy of the status's name in the context the request
\* is handed to it and the reverse proxy writes the upstream's response; the
\* state machine ends and the handler returns to its caller
ExecProxyHTTP ==
    /\ pc = "proxy"
    /\ IF server.proxy.present /\ server.proxy.name = StatusOf(st.res)
       THEN /\ fwd' = Append(fwd, UseProxy(rq, server.proxy, st.res.hdrs))
            /\ \E code \in UpstreamStatus :
                  w' = WriteResponse(w, code, ProxyBody(server.proxy.name))
       ELSE UNCHANGED <<fwd, w>>
    /\ trace' = Append(trace, "execProxyHTTP")
    /\ pc' = ReturnPC(cand)
    /\ UNCHANGED <<route, mux, resps, idx, rnd, tape, rq, cand, retries, hdrTodo,
                   st, served, selLog, attempts, postLog, nreq, cap, server,
                   ctxTok, runVars, auxVars>>

\* execResponseHeaders: w.Header().Add for every value of the response's block
ExecResponseHeaders(wr, res) ==
    IF ~res.hdrs.present THEN wr
    ELSE [wr EXCEPT !.hdr = @ \cup
            UNION {{<<k, res.hdrs.data[k][i]>> : i \in 1..Len(res.hdrs.data[k])} :
                      k \in DOMAIN res.hdrs.data}]

\* an output step that also writes the token of a header in the body
ExecJWTOutput_HeaderAndBody(wr, status, j, token) ==
    CASE j.output = "header" ->
            WriteResponse(AddHeader(wr, j.key, token), status, TokenBody(token))
      [] j.output = "cookie" ->
            WriteResponse(SetCookie(wr, j.key, token), status, EmptyBody)
      [] OTHER -> WriteResponse(wr, status, TokenBody(token))

\* execJWTOutput: the token goes in the named header or the named cookie, and
\* finished writes the status and an empty body; with any other output the
\* token is what finish writes
ExecJWTOutput(wr, status, j, token) ==
    CASE j.output = "header" ->
            WriteResponse(AddHeader(wr, j.key, token), status, EmptyBody)
      [] j.output = "cookie" ->
            WriteResponse(SetCookie(wr, j.key, token), status, EmptyBody)
      [] OTHER -> WriteResponse(wr, status, TokenBody(token))

\* execBodyOutput .. finish: no body attribute is written as the empty string
ExecBodyOutput(wr, status, d, res) ==
    WriteResponse(wr, status, IF res.body THEN Body(d, res.id) ELSE EmptyBody)

\* the states from execAddVariables to execOutput
ContextStates ==
    <<"execAddVariables", "execAddFunctions", "execResponseHeaders", "execOutput">>

\* execAddVariables .. finish: the expression context is built, the headers
\* of the response are added, and the output (the token of the response's JWT
\* block, else its body) is written with the status execStatus found; an
\* unknown JWT configuration, a signing method jwtSigMap does not have or a
\* body expression that does not evaluate ends the state machine with an
\* error, which WriteError answers with 500 or 400. The handler returns to
\* its caller
ExecFinish ==
    /\ pc = "respond"
    /\ LET wh == ExecResponseHeaders(w, st.res)
           j == st.res.jwt
       IN  IF ~j.present /\ st.res.body /\ st.res.bad
           THEN /\ w' = HttpError(wh, 400, ErrorBody(400))
                /\ st' = [st EXCEPT !.vars = TRUE, !.err = "ErrBadHCLExpression"]
                /\ trace' = trace \o ContextStates \o
                               <<"execBodyOutput", "execBodyValueOutput">>
           ELSE IF ~j.present
           THEN /\ w' = ExecBodyOutput(wh, st.status, cand, st.res)
                /\ st' = [st EXCEPT !.vars = TRUE]
                /\ trace' = trace \o ContextStates \o
                               (IF st.res.body
                                THEN <<"execBodyOutput", "execBodyValueOutput", "finish">>
                                ELSE <<"execBodyOutput", "finish">>)
           ELSE IF ~(server.jwt.present /\ server.jwt.name = j.name)
           THEN /\ w' = HttpError(wh, 500, ErrorBody(500))
                /\ st' = [st EXCEPT !.vars = TRUE, !.err = "ErrJWTConfigurationNotFound"]
                /\ trace' = trace \o ContextStates \o <<"execJWTOutput">>
           ELSE IF server.jwt.alg \notin JwtSigMap
           THEN /\ w' = HttpError(wh, 500, ErrorBody(500))
                /\ st' = [st EXCEPT !.vars = TRUE, !.err = "ErrMarshalJWT"]
                /\ trace' = trace \o ContextStates \o <<"execJWTOutput">>
           ELSE /\ w' = ExecJWTOutput(wh, st.status, j,
                                      MarshalJWT(server.jwt, j, UseJWT(server)))
                /\ st' = [st EXCEPT !.vars = TRUE]
                /\ trace' = trace \o ContextStates \o <<"execJWTOutput", "finish">>
    /\ pc' = ReturnPC(cand)
    /\ UNCHANGED <<route, mux, resps, idx, rnd, tape, rq, cand, retries, hdrTodo,
                   served, selLog, attempts, postLog, nreq, cap, server, ctxTok,
                   fwd, runVars, auxVars>>

\* ----------------------------------------------------------- the run loop off
\* the slices of a configuration: servers by name, routes by path
Slices(s, r) == [servers |-> s, routes |-> r]
NoSlices == Slices(<<>>, <<>>)

\* no response served yet; a response: whether the x-reload-error headers are
\* on it, how many loads had been made when it was served, and the time its
\* "reloaded on" line shows (0 without the headers)
NoAnswer == [reloadError |-> FALSE, after |-> 0, reloadedOn |-> 0]
Answered(e, n, t) ==
    [reloadError |-> e, after |-> n, reloadedOn |-> IF e THEN t ELSE 0]

\* func(b bool) { if b { defer func() { recover .. }() } }(true): the defer
\* statement is executed in the frame of the function literal, so the function
\* it defers runs when the literal returns, with nothing to recover; the
\* frame of run() has the deferred functions it had
InstallRecover(frame) ==
    LET literal == <<"recover">>
        returned == Tail(literal)
    IN  returned \o frame

\* run() up to its loop: nothing decoded, an empty reloadSliceManager
NewRun ==
    /\ cfg = [servers |-> <<>>, routes |-> <<>>, valid |-> TRUE, svrCfgLoad |-> 0]
    /\ mgr = [s |-> <<>>, r |-> <<>>]
    /\ handed = NoSlices
    /\ lastGood = NoSlices
    /\ loadLog = <<>>
    /\ errMw = FALSE
    /\ lastAnswer = NoAnswer
    /\ defers = InstallRecover(<<>>)
    /\ records = <<>>

RunOff ==
    /\ rpc = "off"
    /\ NewRun

\* ------------------------------------------------ concurrent requests off
\* the goroutines serving requests, and one that is not in execOrder
Procs == 1..MaxProc
Idle == [pc |-> "idle", order |-> 0, i |-> 0, j |-> 0,
         ti |-> Response(0, ""), tj |-> Response(0, "")]

ConcOff ==
    /\ proc = [p \in Procs |-> Idle]
    /\ sel = {}

\* no request in flight, no reload cycle started yet
NoReq == [pc |-> "none", on |-> 0, status |-> 0, body |-> 0, survived |-> FALSE]
NoTrig == FALSE

\* _http(&config) on n servers: the stoppers are open, the WaitGroup counts
\* the servers, every listener is started with its shutdown goroutine, and
\* the goroutine that will close the completion channel waits
Listeners(n) ==
    /\ stoppers = FALSE
    /\ wg = n
    /\ gor = [i \in 1..n |-> "listen"]
    /\ sup = "recv"
    /\ completion = FALSE

\* run() in its select for the first time
Serving(n) ==
    /\ orch = "select"
    /\ reloadCh = <<>>
    /\ nev = 0
    /\ shutdownCh = [buf |-> 0, closed |-> FALSE]
    /\ Listeners(n)
    /\ era = 0
    /\ cfgGen = 1
    /\ req = NoReq
    /\ trig = NoTrig

DrainOff == Serving(0)

\* an empty log dir, nothing listed yet
NoListing == [n |-> 0, out |-> <<>>]

ErrOff ==
    /\ logDir = {}
    /\ saves = <<>>
    /\ clock = 1
    /\ listing = NoListing

\* no request whose context is built
NoXReq == [method |-> "GET", ctype |-> "", parsed |-> FALSE, len |-> 0, pos |-> 0,
           hdr |-> <<>>, query |-> <<>>, form |-> <<>>]

CtxOff ==
    /\ xreq = NoXReq
    /\ built = <<>>

\* no body template
TplOff ==
    /\ tpl = [wrap |-> FALSE, orig |-> <<>>, parts |-> <<>>]
    /\ outs = <<>>

\* no route to compile
NotCompiled == [state |-> "init", table |-> <<>>]

CmpOff ==
    /\ decl = <<>>
    /\ multi = NotCompiled

MoreOff == ErrOff /\ CtxOff /\ TplOff /\ CmpOff

AuxOff == ConcOff /\ DrainOff /\ MoreOff

\* ------------------------------------------------------------- initial states
\* the order _http builds the handlers in: by descriptor, then by method
BuiltBefore(g, h) ==
    \/ g[1] < h[1]
    \/ g[1] = h[1] /\ g[2] = "GET" /\ h[2] = "POST"

\* the clock readings of the handlers' builds: the clock does not run
\* backwards, and the first reading is the earliest one
BuildTimes(rt) ==
    {now \in [Handlers(rt) -> TimeSeeds] :
        /\ \A g, h \in Handlers(rt) : BuiltBefore(g, h) => now[g] <= now[h]
        /\ \E h \in Handlers(rt) : \A t \in TimeSeeds : now[h] <= t}

\* _http on a route: the table is compiled, every handler gets its counter at
\* 0 and its own generator; no request has arrived
BuiltOn(rt, caps, srv) ==
    /\ CompileOK(rt)
    /\ route = rt
    /\ mux = Compile(rt)
    /\ resps = [d \in 1..Len(rt) |-> rt[d].resp]
    /\ idx = [h \in Handlers(rt) |-> 0]
    /\ \E now \in BuildTimes(rt) :
          rnd = [h \in Handlers(rt) |-> NewRand(rt[h[1]].seed, now[h])]
    /\ tape = [s \in AllSeeds |-> <<>>]
    /\ pc = "idle"
    /\ rq = Request("GET", NoHdr, NoPost, TRUE)
    /\ cand = 0
    /\ retries = <<>>
    /\ hdrTodo = {}
    /\ st = NewState
    /\ w = NewWriter
    /\ served = [h \in Handlers(rt) |-> <<>>]
    /\ selLog = <<>>
    /\ attempts = <<>>
    /\ postLog = <<>>
    /\ nreq = [m \in Methods |-> 0]
    /\ cap = caps
    /\ server = srv
    /\ ctxTok = NilToken
    /\ fwd = <<>>
    /\ trace = <<>>

\* a route on a server without JWT and proxy blocks
Built(rt, caps) == BuiltOn(rt, caps, PlainServer)

\* routes of one descriptor without filters, for one or two methods, of every
\* order, with and without a configured seed, with 0..MaxResp responses
SeqRoutes ==
    {<<Descriptor(ms, o, s, NoHeaders, NoPosted, RespList(n))>> :
        ms \in {{"GET"}, {"GET", "POST"}}, o \in Orders, s \in ConfigSeeds,
        n \in 0..MaxResp}

\* a lone handler is sent two full cycles of requests; each of two handlers
\* of one descriptor is sent MaxReq
SeqCap(rt) ==
    [m \in Methods |->
        IF Cardinality(rt[1].methods) > 1 THEN MaxReq
        ELSE IF Len(rt[1].resp) = 0 THEN 1 ELSE 2 * Len(rt[1].resp)]

InitSeq ==
    /\ \E rt \in SeqRoutes : Built(rt, SeqCap(rt))
    /\ RunOff
    /\ AuxOff

NextSeq ==
    \/ ServeHTTP
    \/ CheckRequestPost
    \/ ExecOrder
    \/ ExecPrePluginRequestHTTP
    \/ ExecDelay
    \/ ExecStatus
    \/ ExecFinish

\* the sequencer under sequential requests
SpecSeq == InitSeq /\ [][NextSeq]_vars

\* ------------------------------------------- routes with request filters
\* the header blocks a descriptor may declare: none, one without names, one
\* name, one name with the wildcard, two names
HeaderBlocks ==
    {NoHeaders,
     HeaderBlock(<<>>),
     HeaderBlock([k \in {"A"} |-> <<"a">>]),
     HeaderBlock([k \in {"A"} |-> <<"*">>]),
     HeaderBlock([k \in {"A", "B"} |-> IF k = "A" THEN <<"a">> ELSE <<"b">>])}

\* the post_values maps a POST descriptor may declare
PostedMaps ==
    {NoPosted, [k \in PostKeys |-> "World"], [k \in PostKeys |-> "*"]}

GetDescriptors ==
    {Descriptor({"GET"}, "", 100, h, NoPosted, RespList(MaxResp)) :
        h \in HeaderBlocks}

PostDescriptors ==
    {Descriptor({"POST"}, "", 100, h, p, RespList(MaxResp)) :
        h \in {NoHeaders, HeaderBlock([k \in {"A"} |-> <<"a">>])},
        p \in PostedMaps}

\* routes of 1..MaxCand descriptors, all for one method
ReqRoutes ==
    UNION {[1..k -> GetDescriptors] \cup [1..k -> PostDescriptors] :
              k \in 1..MaxCand}

InitReq ==
    /\ \E rt \in ReqRoutes : Built(rt, [m \in Methods |-> MaxReq])
    /\ RunOff
    /\ AuxOff

NextReq ==
    \/ ServeHTTP
    \/ CheckRequestPost
    \/ CheckRequestHeader
    \/ ExecOrder
    \/ ExecPrePluginRequestHTTP
    \/ ExecDelay
    \/ ExecStatus
    \/ ExecFinish

\* filtered routes with several candidates under sequential requests
SpecReq == InitReq /\ [][NextReq]_vars

\* one request to each method
OneEach == [m \in Methods |-> 1]

\* the inbound policies: read from a header or a cookie, validation unset,
\* refused or requested, with and without a required claim
JWTPolicies ==
    {NoReqJWT} \cup
    {ReqJWT(in, "tok", v, kv) :
        in \in {"header", "cookie"}, v \in {"unset", "false", "true"},
        kv \in {<<>>, [sub |-> "alice"]}}

\* the claims of an outbound token: a subject, and a payload that holds the
\* secret of the server
RespClaimSets == ClaimSets \cup {[sub |-> "alice", data |-> "k1"]}

\* a response with a body, or one whose JWT block sends a token in a header,
\* a cookie or the body
JWTResponses ==
    {Response(1, sc) : sc \in NumericStatus} \cup
    {FullResponse(1, sc, NoHeaders, RespJWT("jwt1", out, "tok", cs), TRUE) :
        sc \in NumericStatus, out \in {"header", "cookie", "body"},
        cs \in RespClaimSets}

JWTRoutes ==
    {<<WithJWT(Descriptor({"GET"}, "", 100, NoHeaders, NoPosted, <<res>>), j)>> :
        j \in JWTPolicies, res \in JWTResponses}

\* a server with the HS256 secret "k1", and one without a JWT block
JWTServers == {PlainServer, Server(ConfigJWT("jwt1", "HS256", "k1"), NoProxy)}

InitJWT ==
    /\ \E rt \in JWTRoutes, srv \in JWTServers : BuiltOn(rt, OneEach, srv)
    /\ RunOff
    /\ AuxOff

NextJWT ==
    \/ ServeHTTP
    \/ CheckRequestJWT
    \/ ExecOrder
    \/ ExecPrePluginRequestHTTP
    \/ ExecDelay
    \/ ExecStatus
    \/ ExecFinish

\* inbound token policies and outbound tokens
SpecJWT == InitJWT /\ [][NextJWT]_vars

\* the inbound policies over every location: the four of the switch of
\* decodeJWT and one it does not know
JWTInPolicies ==
    {ReqJWT(in, "tok", v, kv) :
        in \in JwtInputs \cup {"body"}, v \in {"unset", "false", "true"},
        kv \in {<<>>, [sub |-> "alice"], [role |-> "admin"]}}

JWTInRoutes ==
    {<<WithJWT(Descriptor({"GET"}, "", 100, NoHeaders, NoPosted, <<Response(1, "200")>>), j)>> :
        j \in JWTInPolicies}

InitJWTIn ==
    /\ \E rt \in JWTInRoutes, srv \in JWTServers : BuiltOn(rt, OneEach, srv)
    /\ RunOff
    /\ AuxOff

NextJWTIn ==
    \/ ServeHTTP
    \/ CheckRequestJWT
    \/ ExecOrder
    \/ ExecPrePluginRequestHTTP
    \/ ExecDelay
    \/ ExecStatus
    \/ ExecFinish

\* the inbound token filter, for every location a policy may name
SpecJWTIn == InitJWTIn /\ [][NextJWTIn]_vars

\* the header blocks of a proxy and of a proxied response: none, or a value
\* for the header A
ProxyHeaders ==
    {NoHeaders} \cup {HeaderBlock([A |-> <<v>>]) : v \in HeaderVals}

\* one response: a numeric status, the name of the server's proxy, or a name
\* no proxy has
ProxyRoutes ==
    {<<Descriptor({"GET"}, "", 100, NoHeaders, NoPosted,
                  <<FullResponse(1, sc, h, NoRespJWT, TRUE)>>)>> :
        sc \in {"200", "px", "nope"}, h \in ProxyHeaders}

ProxyServers ==
    {PlainServer} \cup {Server(NoJWT, ConfigProxy("px", h)) : h \in ProxyHeaders}

InitProxy ==
    /\ \E rt \in ProxyRoutes, srv \in ProxyServers : BuiltOn(rt, OneEach, srv)
    /\ RunOff
    /\ AuxOff

NextProxy ==
    \/ ServeHTTP
    \/ ExecOrder
    \/ ExecPrePluginRequestHTTP
    \/ ExecDelay
    \/ ExecStatus
    \/ ExecProxyHTTP
    \/ ExecFinish

\* responses delegated to a proxy
SpecProxy == InitProxy /\ [][NextProxy]_vars

\* ------------------------------------------------- output steps that fail
\* the header blocks of a response: none, a header of its own, a content type
OutHeaders ==
    {NoHeaders,
     HeaderBlock([A |-> <<"a">>]),
     HeaderBlock(("Content-Type" :> <<"application/json">>))}

\* a response without a body, with a body, with a body whose expression does
\* not evaluate, and with a token of a configuration the server has or lacks
OutResponses ==
    {FullResponse(1, "200", h, NoRespJWT, b) : h \in OutHeaders, b \in BOOLEAN} \cup
    {BadBody(FullResponse(1, "200", h, NoRespJWT, TRUE)) : h \in OutHeaders} \cup
    {FullResponse(1, "200", h, RespJWT(n, "body", "tok", [sub |-> "alice"]), TRUE) :
        h \in OutHeaders, n \in {"jwt1", "nope"}}

OutRoutes ==
    {<<Descriptor({"GET"}, "", 100, NoHeaders, NoPosted, <<res>>)>> :
        res \in OutResponses}

\* a server that signs with HS256, and one whose algorithm passes the setup
\* (it starts with "hs") and is no key of jwtSigMap
OutServers ==
    {Server(ConfigJWT("jwt1", a, "k1"), NoProxy) : a \in {"HS256", "HS999"}}

InitOut ==
    /\ \E rt \in OutRoutes, srv \in OutServers : BuiltOn(rt, OneEach, srv)
    /\ RunOff
    /\ AuxOff

NextOut ==
    \/ ServeHTTP
    \/ ExecOrder
    \/ ExecPrePluginRequestHTTP
    \/ ExecDelay
    \/ ExecStatus
    \/ ExecFinish

\* responses whose output step fails
SpecOut == InitOut /\ [][NextOut]_vars

\* ------------------------------------------------- the sequencer, concurrently
\* len(resps) of descriptor d
NResp(d) == Len(route[d].resp)

\* the one handler of a route of one GET descriptor
TheHandler == <<1, "GET">>

\* the counter values handed out: two cycles and one value more, or with
\* shuffles one cycle and the value that starts the next
ConcLimit ==
    IF route[1].order = "unordered" THEN NResp(1) + 1 ELSE 2 * NResp(1) + 1

\* an increment that is lost when another request is in execOrder
AddUint64_LostUpdate ==
    \E p \in Procs :
        /\ proc[p].pc = "idle"
        /\ idx[TheHandler] < ConcLimit
        /\ idx' = [idx EXCEPT ![TheHandler] =
                      IF \E q \in Procs : proc[q].pc # "idle" THEN @ ELSE @ + 1]
        /\ proc' = [proc EXCEPT ![p] =
              [@ EXCEPT !.order = idx[TheHandler],
                        !.i = NResp(1) - 1,
                        !.pc = IF /\ route[1].order = "unordered"
                                  /\ idx[TheHandler] % NResp(1) = 0
                                  /\ NResp(1) > 1
                               THEN "shuffle" ELSE "read"]]
        /\ UNCHANGED <<route, mux, resps, rnd, tape, pc, rq, cand, retries, hdrTodo,
                       st, w, served, selLog, attempts, postLog, nreq, cap, server,
                       ctxTok, fwd, trace, sel, runVars,
                       panVars, drnVars, moreVars>>

\* execOrder, order = atomic.AddUint64(idx, 1) - 1: one goroutine takes the
\* next counter value; with order "unordered" and a value that is a multiple
\* of len(resps) it goes on to shuffle, else to read its response
AddUint64 ==
    \E p \in Procs :
        /\ proc[p].pc = "idle"
        /\ idx[TheHandler] < ConcLimit
        /\ idx' = [idx EXCEPT ![TheHandler] = @ + 1]
        /\ proc' = [proc EXCEPT ![p] =
              [@ EXCEPT !.order = idx[TheHandler],
                        !.i = NResp(1) - 1,
                        !.pc = IF /\ route[1].order = "unordered"
                                  /\ idx[TheHandler] % NResp(1) = 0
                                  /\ NResp(1) > 1
                               THEN "shuffle" ELSE "read"]]
        /\ UNCHANGED <<route, mux, resps, rnd, tape, pc, rq, cand, retries, hdrTodo,
                       st, w, served, selLog, attempts, postLog, nreq, cap, server,
                       ctxTok, fwd, trace, sel, runVars,
                       panVars, drnVars, moreVars>>

\* rand.Shuffle, one turn of its loop: j := Intn(i + 1), and the operands of
\* resps[i], resps[j] = resps[j], resps[i] are read (of the raw values that
\* give the same j the least is drawn)
ShuffleDraw ==
    \E p \in Procs :
        /\ proc[p].pc = "shuffle"
        /\ \E s \in Draws(rnd[TheHandler], 1) :
              /\ s[1] <= proc[p].i
              /\ tape' = TapeAfter(rnd[TheHandler], s)
              /\ rnd' = [rnd EXCEPT ![TheHandler] = Advance(@, 1)]
              /\ proc' = [proc EXCEPT ![p] =
                    [@ EXCEPT !.j = s[1] % (proc[p].i + 1),
                              !.ti = resps[1][(s[1] % (proc[p].i + 1)) + 1],
                              !.tj = resps[1][proc[p].i + 1],
                              !.pc = "storeI"]]
        /\ UNCHANGED <<route, mux, resps, idx, pc, rq, cand, retries, hdrTodo,
                       st, w, served, selLog, attempts, postLog, nreq, cap, server,
                       ctxTok, fwd, trace, sel, runVars,
                       panVars, drnVars, moreVars>>

\* the swap stores resps[i]
SwapStoreI ==
    \E p \in Procs :
        /\ proc[p].pc = "storeI"
        /\ resps' = [resps EXCEPT ![1][proc[p].i + 1] = proc[p].ti]
        /\ proc' = [proc EXCEPT ![p].pc = "storeJ"]
        /\ UNCHANGED <<route, mux, idx, rnd, tape, pc, rq, cand, retries, hdrTodo,
                       st, w, served, selLog, attempts, postLog, nreq, cap, server,
                       ctxTok, fwd, trace, sel, runVars,
                       panVars, drnVars, moreVars>>

\* the swap stores resps[j]; the loop of rand.Shuffle goes on while i > 0
SwapStoreJ ==
    \E p \in Procs :
        /\ proc[p].pc = "storeJ"
        /\ resps' = [resps EXCEPT ![1][proc[p].j + 1] = proc[p].tj]
        /\ proc' = [proc EXCEPT ![p] =
              [@ EXCEPT !.i = @ - 1,
                        !.pc = IF proc[p].i - 1 > 0 THEN "shuffle" ELSE "read"]]
        /\ UNCHANGED <<route, mux, idx, rnd, tape, pc, rq, cand, retries, hdrTodo,
                       st, w, served, selLog, attempts, postLog, nreq, cap, server,
                       ctxTok, fwd, trace, sel, runVars,
                       panVars, drnVars, moreVars>>

\* st.res = resps[int(order) % len(resps)]: the Select step is finished
ReadResponse ==
    \E p \in Procs :
        /\ proc[p].pc = "read"
        /\ sel' = sel \cup {<<proc[p].order,
                              resps[1][(proc[p].order % NResp(1)) + 1].id>>}
        /\ proc' = [proc EXCEPT ![p] = Idle]
        /\ UNCHANGED <<route, mux, resps, idx, rnd, tape, pc, rq, cand, retries,
                       hdrTodo, st, w, served, selLog, attempts, postLog, nreq, cap,
                       server, ctxTok, fwd, trace, runVars,
                       panVars, drnVars, moreVars>>

\* one GET descriptor with 1..MaxResp responses, ordered or unordered, that
\* no request goes through one at a time
ConcRoutes ==
    {<<Descriptor({"GET"}, o, 100, NoHeaders, NoPosted, RespList(n))>> :
        o \in {"ordered", "unordered"}, n \in 1..MaxResp}

InitConc ==
    /\ \E rt \in ConcRoutes : Built(rt, [m \in Methods |-> 0])
    /\ RunOff
    /\ AuxOff

NextConc ==
    \/ AddUint64
    \/ ShuffleDraw
    \/ SwapStoreI
    \/ SwapStoreJ
    \/ ReadResponse

\* the Select steps of requests that run at the same time
SpecConc == InitConc /\ [][NextConc]_vars

\* ------------------------------------------------------------ the run loop
\* what the configuration files may hold when they are decoded
ServerLists == {<<>>, <<"s1">>, <<"s2">>, <<"s1", "s2">>}
RouteLists == {<<>>, <<"/r1">>, <<"/r2">>}

\* reloadSliceManager
IsReload(m) == Len(m.s) > 0
Put(s, r) == [s |-> s, r |-> r]
Del(m) == [s |-> SubSeq(m.s, 1, 0), r |-> SubSeq(m.r, 1, 0)]

\* a loop that keeps what a failed decode left in config
DecodeFile_NoRestore ==
    /\ rpc = "load"
    /\ \E ok \in BOOLEAN, s \in ServerLists, r \in RouteLists :
          /\ loadLog' = Append(loadLog, ok)
          /\ IF ok
             THEN /\ cfg' = [cfg EXCEPT !.servers = s, !.routes = r]
                  /\ lastGood' = Slices(s, r)
                  /\ rpc' = "start"
                  /\ mgr' = Del(mgr)
             ELSE IF ~IsReload(mgr)
             THEN /\ cfg' = [cfg EXCEPT !.servers = s, !.routes = r]
                  /\ rpc' = "fatal"
                  /\ UNCHANGED <<mgr, lastGood>>
             ELSE /\ cfg' = [cfg EXCEPT !.servers = s, !.routes = r, !.valid = FALSE]
                  /\ rpc' = "start"
                  /\ mgr' = Del(mgr)
                  /\ UNCHANGED lastGood
          /\ records' = IF ~ok /\ IsReload(mgr) THEN Append(records, "reload")
                        ELSE records
    /\ UNCHANGED <<handed, errMw, lastAnswer, reqVars, conVars, defers, drnVars, moreVars>>

\* the head of the loop of run(): the slices of config are reset, the files
\* are decoded into config (an error may leave anything in the slices); on an
\* error the first load is fatal and a reload takes back the slices the
\* manager holds; then the manager's copy is dropped
DecodeFile ==
    /\ rpc = "load"
    /\ \E ok \in BOOLEAN, s \in ServerLists, r \in RouteLists :
          /\ loadLog' = Append(loadLog, ok)
          /\ IF ok
             THEN /\ cfg' = [cfg EXCEPT !.servers = s, !.routes = r]
                  /\ lastGood' = Slices(s, r)
                  /\ rpc' = "start"
                  /\ mgr' = Del(mgr)
             ELSE IF ~IsReload(mgr)
             THEN \* log.Fatalf
                  /\ cfg' = [cfg EXCEPT !.servers = s, !.routes = r]
                  /\ rpc' = "fatal"
                  /\ UNCHANGED <<mgr, lastGood>>
             ELSE /\ cfg' = [cfg EXCEPT !.servers = mgr.s, !.routes = mgr.r,
                                        !.valid = FALSE]
                  /\ rpc' = "start"
                  /\ mgr' = Del(mgr)
                  /\ UNCHANGED lastGood
          \* re.save(config, err, "reload")
          /\ records' = IF ~ok /\ IsReload(mgr) THEN Append(records, "reload")
                        ELSE records
    /\ UNCHANGED <<handed, errMw, lastAnswer, reqVars, conVars, defers, drnVars, moreVars>>

\* shutdown := _http(&config): the listeners are started on config; the
\* middleware that adds the x-reload-error headers is used when
\* svrCfgLoadValid is false
Http ==
    /\ rpc = "start"
    /\ handed' = Slices(cfg.servers, cfg.routes)
    /\ errMw' = ~cfg.valid
    /\ rpc' = "serve"
    /\ UNCHANGED <<cfg, mgr, lastGood, loadLog, lastAnswer, reqVars, auxVars>>

\* a listener answers a request: the middleware chain of its server router
\* runs before the routes
Answer ==
    /\ rpc = "serve"
    /\ handed.servers # <<>>
    /\ lastAnswer' = Answered(errMw, Len(loadLog), cfg.svrCfgLoad)
    /\ UNCHANGED <<rpc, cfg, mgr, handed, lastGood, loadLog, errMw, reqVars, auxVars>>

\* a reload that leaves svrCfgLoadValid as the last load left it
Reload_KeepValid ==
    /\ rpc = "serve"
    /\ Len(loadLog) < MaxLoads
    /\ cfg' = cfg
    /\ mgr' = Put(cfg.servers, cfg.routes)
    /\ rpc' = "load"
    /\ UNCHANGED <<handed, lastGood, loadLog, errMw, lastAnswer, reqVars, auxVars>>

\* the clock: the k-th decode is made at time k, and so is what the loop
\* does between the signal and that decode
Now == Len(loadLog) + 1

\* case <-config.reload: the listeners are stopped and drained, svrCfgLoad is
\* set to time.Now(), the slices of config are saved in the manager and the
\* loop starts over
Reload ==
    /\ rpc = "serve"
    /\ Len(loadLog) < MaxLoads
    /\ cfg' = [cfg EXCEPT !.valid = TRUE, !.svrCfgLoad = Now]
    /\ mgr' = Put(cfg.servers, cfg.routes)
    /\ rpc' = "load"
    /\ UNCHANGED <<handed, lastGood, loadLog, errMw, lastAnswer, reqVars, auxVars>>

\* a panic in the loop of run(), in the decode, the setup of the plugins or
\* the setup of the listeners: the functions deferred in the frame of run()
\* are run; the one that recovers saves a record of kind panic and ends the
\* process with log.Fatal, and with none the runtime ends the process
Panic ==
    /\ rpc \in {"load", "start"}
    /\ IF \E i \in DOMAIN defers : defers[i] = "recover"
       THEN /\ records' = Append(records, "panic")
            /\ rpc' = "exit"
       ELSE /\ records' = records
            /\ rpc' = "panic"
    /\ UNCHANGED <<cfg, mgr, handed, lastGood, loadLog, errMw, lastAnswer, reqVars,
                   conVars, defers, drnVars, moreVars>>

\* case <-shutdown: run returns
Shutdown ==
    /\ rpc = "serve"
    /\ rpc' = "stopped"
    /\ UNCHANGED <<cfg, mgr, handed, lastGood, loadLog, errMw, lastAnswer, reqVars, auxVars>>

\* no route is being served from
ReqOff ==
    Built(<<Descriptor({"GET"}, "", 100, NoHeaders, NoPosted, RespList(1))>>,
          [m \in Methods |-> 0])

InitReload ==
    /\ ReqOff
    /\ rpc = "load"
    /\ NewRun
    /\ AuxOff

NextReload ==
    \/ DecodeFile
    \/ Http
    \/ Answer
    \/ Reload
    \/ Shutdown
    \/ Panic

\* the run loop under reload signals, parse outcomes and a shutdown
SpecReload == InitReload /\ [][NextReload]_vars

\* --------------------------------------------- reloads, drains and listeners
\* what the drain actions leave alone
OffVars == <<reqVars, runVars, conVars, panVars, moreVars>>

\* the number of listeners of a generation
NSrv == Len(gor)

\* the watcher of _reload: a Write event on the file, reload <- struct{}{}
\* (the send waits while the buffer is full)
FileWrite ==
    /\ nev < MaxEvents
    /\ Len(reloadCh) < 1
    /\ reloadCh' = Append(reloadCh, orch = "drain")
    /\ nev' = nev + 1
    /\ UNCHANGED <<orch, shutdownCh, sup, stoppers, gor, wg, completion, era,
                   cfgGen, req, trig, OffVars>>

\* _shutdown: SIGHUP, SIGINT or SIGQUIT, close(shutdown)
Signal ==
    /\ ~shutdownCh.closed
    /\ shutdownCh' = [shutdownCh EXCEPT !.closed = TRUE]
    /\ UNCHANGED <<orch, reloadCh, nev, sup, stoppers, gor, wg, completion, era,
                   cfgGen, req, trig, OffVars>>

\* run(), select, case <-config.reload
SelectReload ==
    /\ orch = "select"
    /\ era < MaxDrains
    /\ reloadCh # <<>>
    /\ trig' = Head(reloadCh)
    /\ reloadCh' = Tail(reloadCh)
    /\ orch' = "notify"
    /\ UNCHANGED <<nev, shutdownCh, sup, stoppers, gor, wg, completion, era,
                   cfgGen, req, OffVars>>

\* run(), select, case <-shutdown: return "Done"
SelectShutdown ==
    /\ orch = "select"
    /\ completion
    /\ orch' = "done"
    /\ UNCHANGED <<reloadCh, nev, shutdownCh, sup, stoppers, gor, wg, completion,
                   era, cfgGen, req, trig, OffVars>>

\* config.shutdown <- struct{}{}: a send on a closed channel panics, a send
\* on a full buffer waits
Notify ==
    /\ orch = "notify"
    /\ shutdownCh.closed \/ shutdownCh.buf < 1
    /\ IF shutdownCh.closed
       THEN /\ orch' = "panic"
            /\ UNCHANGED shutdownCh
       ELSE /\ orch' = "drain"
            /\ shutdownCh' = [shutdownCh EXCEPT !.buf = @ + 1]
    /\ UNCHANGED <<reloadCh, nev, sup, stoppers, gor, wg, completion, era, cfgGen,
                   req, trig, OffVars>>

\* reloadDrain, case <-sc.reload: the signal is dropped
DrainReload ==
    /\ orch = "drain"
    /\ reloadCh # <<>>
    /\ reloadCh' = Tail(reloadCh)
    /\ UNCHANGED <<orch, nev, shutdownCh, sup, stoppers, gor, wg, completion, era,
                   cfgGen, req, trig, OffVars>>

\* reloadDrain, case <-shutdown: return (select takes any case that is ready)
DrainShutdown ==
    /\ orch = "drain"
    /\ completion
    /\ orch' = "load"
    /\ era' = era + 1
    /\ UNCHANGED <<reloadCh, nev, shutdownCh, sup, stoppers, gor, wg, completion,
                   cfgGen, req, trig, OffVars>>

\* the loop of run() from its head to its select: the files are decoded into
\* the shared Config and _http starts the listeners of n servers
Restart ==
    /\ orch = "load"
    /\ cfgGen' = cfgGen + 1
    /\ \E n \in 1..MaxSrv :
          /\ stoppers' = FALSE
          /\ wg' = n
          /\ gor' = [i \in 1..n |-> "listen"]
          /\ sup' = "recv"
          /\ completion' = FALSE
    /\ orch' = "select"
    /\ UNCHANGED <<reloadCh, nev, shutdownCh, era, req, trig, OffVars>>

\* _http's last goroutine: <-config.shutdown, then every stopper is closed
SupervisorRecv ==
    /\ sup = "recv"
    /\ shutdownCh.buf > 0 \/ shutdownCh.closed
    /\ shutdownCh' = [shutdownCh EXCEPT !.buf = IF @ > 0 THEN @ - 1 ELSE @]
    /\ stoppers' = TRUE
    /\ sup' = "wait"
    /\ UNCHANGED <<orch, reloadCh, nev, gor, wg, completion, era, cfgGen, req,
                   trig, OffVars>>

\* a goroutine that closes the completion channel without waiting
SupervisorWait_NoWait ==
    /\ sup = "wait"
    /\ completion' = TRUE
    /\ sup' = "end"
    /\ UNCHANGED <<orch, reloadCh, nev, shutdownCh, stoppers, gor, wg, era, cfgGen,
                   req, trig, OffVars>>

\* svr.Wait(); close(shutdown)
SupervisorWait ==
    /\ sup = "wait"
    /\ wg = 0
    /\ completion' = TRUE
    /\ sup' = "end"
    /\ UNCHANGED <<orch, reloadCh, nev, shutdownCh, stoppers, gor, wg, era, cfgGen,
                   req, trig, OffVars>>

\* a listener's shutdown goroutine: <-stoppers[i] (i is the variable of the
\* loop, at the goroutine's index or beyond: every stopper is closed alike),
\* svr.Done() is deferred and serve.Shutdown(ctx) closes the listener
StopperRecv ==
    \E s \in DOMAIN gor :
        /\ gor[s] = "listen"
        /\ stoppers
        /\ gor' = [gor EXCEPT ![s] = "shutdown"]
        /\ UNCHANGED <<orch, reloadCh, nev, shutdownCh, sup, stoppers, wg,
                       completion, era, cfgGen, req, trig, OffVars>>

\* serve.Shutdown(ctx) returns: the connections are idle, or the 5 seconds
\* of ctx are over and a request is still being handled; then the deferred
\* svr.Done()
StopperReturn ==
    \E s \in DOMAIN gor :
        /\ gor[s] = "shutdown"
        /\ gor' = [gor EXCEPT ![s] = "end"]
        /\ wg' = wg - 1
        /\ req' = IF req.pc \in {"status", "body"} /\ req.on = s
                  THEN [req EXCEPT !.survived = TRUE] ELSE req
        /\ UNCHANGED <<orch, reloadCh, nev, shutdownCh, sup, stoppers, completion,
                       era, cfgGen, trig, OffVars>>

\* a listener accepts a request for a path without a route, on a configuration
\* with a not_found block
Accept ==
    \E s \in DOMAIN gor :
        /\ gor[s] = "listen"
        /\ req.pc \in {"none", "done"}
        /\ req' = [NoReq EXCEPT !.pc = "status", !.on = s]
        /\ UNCHANGED <<orch, reloadCh, nev, shutdownCh, sup, stoppers, gor, wg,
                       completion, era, cfgGen, trig, OffVars>>

\* the not-found handler: var status = config.NotFound.Response.Status
NotFoundStatus ==
    /\ req.pc = "status"
    /\ req' = [req EXCEPT !.pc = "body", !.status = cfgGen]
    /\ UNCHANGED <<orch, reloadCh, nev, shutdownCh, sup, stoppers, gor, wg,
                   completion, era, cfgGen, trig, OffVars>>

\* the not-found handler: config.NotFound.Response.Body.Expr.Value(..)
NotFoundBody ==
    /\ req.pc = "body"
    /\ req' = [req EXCEPT !.pc = "done", !.body = cfgGen]
    /\ UNCHANGED <<orch, reloadCh, nev, shutdownCh, sup, stoppers, gor, wg,
                   completion, era, cfgGen, trig, OffVars>>

InitDrain ==
    /\ ReqOff
    /\ RunOff
    /\ ConcOff
    /\ MoreOff
    /\ \E n \in 1..MaxSrv : Serving(n)

NextDrain ==
    \/ FileWrite
    \/ Signal
    \/ SelectReload
    \/ SelectShutdown
    \/ Notify
    \/ DrainReload
    \/ DrainShutdown
    \/ Restart
    \/ SupervisorRecv
    \/ SupervisorWait
    \/ StopperRecv
    \/ StopperReturn
    \/ Accept
    \/ NotFoundStatus
    \/ NotFoundBody

\* reload signals, drains and restarts of the listeners under requests
SpecDrain == InitDrain /\ [][NextDrain]_vars

\* every goroutine that can take a step does so in the end: run(), the
\* goroutine of _http that waits for the drain request, the shutdown
\* goroutine of each listener, and the handler of a request
DrainFairness ==
    /\ WF_vars(SelectReload) /\ WF_vars(SelectShutdown) /\ WF_vars(Notify)
    /\ WF_vars(DrainReload) /\ WF_vars(DrainShutdown) /\ WF_vars(Restart)
    /\ WF_vars(SupervisorRecv) /\ WF_vars(SupervisorWait)
    /\ WF_vars(StopperRecv) /\ WF_vars(StopperReturn)
    /\ WF_vars(NotFoundStatus) /\ WF_vars(NotFoundBody)

\* the same, under a scheduler that is fair to every goroutine
SpecDrainLive == SpecDrain /\ DrainFairness

\* ------------------------------------------------------- the failure records
\* what the error actions leave alone
ErrOffVars == <<reqVars, runVars, conVars, panVars, drnVars, ctxVars, tplVars, cmpVars>>

\* the kinds save is called with, and the suffixes the endpoint looks for
\* ("-reload.txt", "-panix.txt")
SaveKinds == {"reload", "panic"}
ListedSuffixes == {"reload", "panix"}

\* the place of the name <t>-<kind>.txt in sort.StringSlice: by the seconds
\* (of one width), then by the kind
NameKey(f) == 2 * f.t + (IF f.kind = "panic" THEN 0 ELSE 1)

\* sort.Sort(sort.Reverse(sort.StringSlice(files))), then the files are copied
\* to the response: the ids of the records, in that order
RECURSIVE Reversed(_)
Reversed(fs) ==
    IF fs = {} THEN <<>>
    ELSE LET f == CHOOSE x \in fs : \A y \in fs : NameKey(y) <= NameKey(x)
         IN  <<f.id>> \o Reversed(fs \ {f})

\* reloadError.handler: the files whose name ends in one of the suffixes
ReloadErrorHandler(dir) == Reversed({f \in dir : f.kind \in ListedSuffixes})

\* a second passes
Tick ==
    /\ clock < MaxClock
    /\ clock' = clock + 1
    /\ UNCHANGED <<logDir, saves, listing, ErrOffVars>>

\* reloadError.save: os.Create of <unix seconds>-<kind>.txt (a file of that
\* name is truncated) and the record is written to it
Save ==
    /\ Len(saves) < MaxSaves
    /\ \E kind \in SaveKinds :
          /\ saves' = Append(saves, [t |-> clock, kind |-> kind])
          /\ logDir' = {f \in logDir : ~(f.t = clock /\ f.kind = kind)} \cup
                           {[t |-> clock, kind |-> kind, id |-> Len(saves) + 1]}
    /\ UNCHANGED <<clock, listing, ErrOffVars>>

\* GET /_internal/reload/errors
ErrorsEndpoint ==
    /\ listing' = [n |-> Len(saves), out |-> ReloadErrorHandler(logDir)]
    /\ UNCHANGED <<logDir, saves, clock, ErrOffVars>>

InitErrors ==
    /\ ReqOff
    /\ RunOff
    /\ ConcOff
    /\ DrainOff
    /\ ErrOff
    /\ CtxOff
    /\ TplOff
    /\ CmpOff

NextErrors ==
    \/ Tick
    \/ Save
    \/ ErrorsEndpoint

\* failure records saved and listed
SpecErrors == InitErrors /\ [][NextErrors]_vars

\* ------------------------------------------------------------------ claims

\* the ids handler h returned in its cycle c (c from 0), in order
CycleOf(h, c) == SubSeq(served[h], c * NResp(h[1]) + 1, (c + 1) * NResp(h[1]))

Range(q) == {q[i] : i \in 1..Len(q)}

\* C1: with order "ordered" or unset and N >= 1 responses, the k-th request
\* (k from 0) a handler serves gets list[k mod N]: 2N requests return the
\* list twice, in declaration order
C1_OrderedCycles ==
    \A h \in DOMAIN served :
        (route[h[1]].order \in {"", "ordered"} /\ NResp(h[1]) >= 1) =>
            \A k \in 0..(Len(served[h]) - 1) :
                served[h][k + 1] = route[h[1]].resp[(k % NResp(h[1])) + 1].id

C1_Witness ==
    \E h \in DOMAIN served :
        /\ route[h[1]].order = "ordered"
        /\ NResp(h[1]) >= 2
        /\ Len(served[h]) = 2 * NResp(h[1])
        /\ pc = "done"

C4_EmptyListNotFound ==
    (pc \in {"done", "panic"} /\ cand # 0 /\ NResp(cand) = 0) =>
        /\ pc = "done"
        /\ selLog = <<>>
        /\ w.calls = <<404>>

\* one sequence is a prefix of the other
Agree(p, q) ==
    \A i \in 1..Len(p) : i <= Len(q) => p[i] = q[i]

\* C5: with order "random", two handlers built from one descriptor whose seed
\* is set (not 0) return the same sequence of responses
C5_SeededRandomRepeats ==
    \A h1, h2 \in DOMAIN served :
        (/\ h1[1] = h2[1]
         /\ route[h1[1]].order = "random"
         /\ route[h1[1]].seed # 0) => Agree(served[h1], served[h2])

C5_Witness ==
    \E h1, h2 \in DOMAIN served :
        /\ h1 # h2
        /\ h1[1] = h2[1]
        /\ route[h1[1]].order = "random"
        /\ route[h1[1]].seed # 0
        /\ NResp(h1[1]) >= 2
        /\ Len(served[h1]) >= 2
        /\ Len(served[h2]) >= 2
        /\ Cardinality(Range(served[h1])) >= 2

\* the candidates of method m, in the order they are tried
Cands(m) == <<mux[m].first>> \o mux[m].rest

\* request r misses a required header of descriptor d
HeaderRejects(d, r) ==
    /\ route[d].hdrs.present
    /\ \E k \in DOMAIN route[d].hdrs.data :
          \/ Len(route[d].hdrs.data[k]) # Len(r.hdr[k])
          \/ \E i \in 1..Len(route[d].hdrs.data[k]) :
                /\ route[d].hdrs.data[k][i] # "*"
                /\ route[d].hdrs.data[k][i] # r.hdr[k][i]

\* every required posted field of d is "*" or equals the posted value
PostedMatch(d, r) ==
    \A k \in DOMAIN route[d].posted :
        \/ route[d].posted[k] = "*"
        \/ r.post[k] # <<>> /\ r.post[k][1] = route[d].posted[k]

\* request r passes every filter of descriptor d
Passes(d, r) ==
    /\ ~HeaderRejects(d, r)
    /\ r.method = "POST" => (r.formOK /\ PostedMatch(d, r))

\* the Select steps of the request in flight that descriptor d made
SelectsOf(d) == {i \in 1..Len(selLog) : selLog[i][1] = d}

\* C3: a request that passes the filters of a descriptor with N >= 1
\* responses (zero, one or several required header names, all matching) runs
\* the Select step exactly once, gets an index in [0, N) and writes exactly
\* one response
C3_OneSelectPerRequest ==
    (pc = "done" /\ attempts = <<cand>> /\ NResp(cand) >= 1 /\ Passes(cand, rq)) =>
        /\ Len(selLog) = 1
        /\ \A i \in 1..Len(selLog) :
              selLog[i][1] = cand /\ selLog[i][2] \in 0..(NResp(cand) - 1)
        /\ Len(w.calls) = 1

\* C6: with two descriptors for one method, a request that fails the header
\* check of the first and passes the filters of the second is answered with
\* the second's response, and only with it
C6_HeaderMismatchFallsThrough ==
    (/\ pc = "done"
     /\ Len(Cands(rq.method)) = 2
     /\ rq.method = "POST" => (rq.formOK /\ PostedMatch(Cands(rq.method)[1], rq))
     /\ HeaderRejects(Cands(rq.method)[1], rq)
     /\ Passes(Cands(rq.method)[2], rq)) =>
        /\ w.calls = <<200>>
        /\ Len(w.body) = 1
        /\ \A i \in 1..Len(w.body) : w.body[i][1] = Cands(rq.method)[2]

\* C7: the candidates of a request are attempted in declaration order, none
\* twice; the request's retry list is what is left after the attempts, and
\* the list compiled with the route stays as compiled
C7_RetryListPopped ==
    /\ mux = Compile(route)
    /\ pc # "idle" =>
          /\ \A i, j \in 1..Len(attempts) : i < j => attempts[i] < attempts[j]
          /\ attempts \o retries = Cands(rq.method)

C7_Witness ==
    /\ pc = "done"
    /\ nreq[rq.method] = 2
    /\ Len(Cands(rq.method)) = 2
    /\ attempts = Cands(rq.method)
    /\ retries = <<>>

\* C8: when every candidate of the method rejects the request, handling ends
\* after at most K attempts and the client gets exactly one 404
C8_AllNotFoundOne404 ==
    (/\ pc = "done"
     /\ \A i \in 1..Len(Cands(rq.method)) : ~Passes(Cands(rq.method)[i], rq)
     /\ rq.formOK) =>
        /\ Len(attempts) <= Len(Cands(rq.method))
        /\ w.calls = <<404>>

\* C9 as stated: for a POST descriptor with required posted fields the
\* request goes on to the handler iff every field is "*" or equals the posted
\* value; otherwise the outcome is "not found" and the handler is not run
C9_PostedFieldsDecide_AnyForm ==
    \A i \in 1..Len(postLog) :
        route[postLog[i].cand].posted # NoPosted =>
            /\ postLog[i].out = "next" <=> PostedMatch(postLog[i].cand, rq)
            /\ ~PostedMatch(postLog[i].cand, rq) =>
                  /\ postLog[i].out = "notfound"
                  /\ SelectsOf(postLog[i].cand) = {}

\* C9 amended: the same for a request whose form parses; a request whose form
\* does not parse gets a 500 and the handler is not run
C9_PostedFieldsDecide ==
    \A i \in 1..Len(postLog) :
        route[postLog[i].cand].posted # NoPosted =>
            /\ rq.formOK =>
                  /\ postLog[i].out = "next" <=> PostedMatch(postLog[i].cand, rq)
                  /\ ~PostedMatch(postLog[i].cand, rq) =>
                        /\ postLog[i].out = "notfound"
                        /\ SelectsOf(postLog[i].cand) = {}
                        /\ (pc = "done" /\ i = Len(postLog)) =>
                              w.calls[Len(w.calls)] = 404
                  /\ (/\ PostedMatch(postLog[i].cand, rq)
                      /\ ~route[postLog[i].cand].hdrs.present
                      /\ pc = "done") =>
                        Cardinality(SelectsOf(postLog[i].cand)) = 1
            /\ ~rq.formOK =>
                  /\ postLog[i].out = "error"
                  /\ SelectsOf(postLog[i].cand) = {}
                  /\ pc = "done" => w.calls[Len(w.calls)] = 500

C9_Witness ==
    /\ pc = "done"
    /\ postLog # <<>>
    /\ route[cand].posted # NoPosted
    /\ route[cand].posted["hello"] = "World"
    /\ postLog[Len(postLog)] = [cand |-> cand, out |-> "next"]
    /\ SelectsOf(cand) # {}

\* C10: whatever the parse outcomes of the loads so far, the servers and
\* routes the listeners are started with are those of the most recent
\* successful parse
C10_LastGoodServed ==
    rpc \in {"serve", "stopped"} => handed = lastGood

C10_Witness ==
    /\ rpc = "serve"
    /\ Len(loadLog) >= 3
    /\ ~loadLog[Len(loadLog)]
    /\ ~loadLog[Len(loadLog) - 1]
    /\ handed.servers # <<>>
    /\ handed.routes # <<>>

C12_FatalIffNoLoadSucceeded ==
    (loadLog # <<>> /\ ~loadLog[Len(loadLog)]) =>
        (rpc = "fatal" <=> \A i \in 1..(Len(loadLog) - 1) : ~loadLog[i])


\* ------------------------------------------------------------------ tokens
\* the policy and the response of the one descriptor of a token route
Policy == route[1].jwt
Configured == route[1].resp[1]

\* the request in flight presents a token that parses; its signature is the
\* server's
Presented == rq.token.kind = "jwt"
Verifies == server.jwt.present /\ rq.token.sig[3] = server.jwt.secret

\* the value of the x-jwt-validation header of the response, if any
ValidationValues == {p[2] : p \in {q \in w.hdr : q[1] = "x-jwt-validation"}}

\* the request went through the handler and got the response as configured
NormalResponse ==
    /\ pc = "done"
    /\ selLog = <<<<1, 0>>>>
    /\ Len(w.calls) = 1
    /\ ~Configured.jwt.present =>
          /\ w.calls[1] = Atoi(Configured.status)
          /\ w.body = <<Body(1, Configured.id)>>
    /\ (Configured.jwt.present /\ server.jwt.present) =>
          w.calls[1] = Atoi(Configured.status)

\* C13 as stated: with validation requested, a presented token that fails
\* verification never aborts the request: the response has x-jwt-validation:
\* invalid and is the configured one
C13_InvalidTokenServed_AnyClaims ==
    (pc \in {"done", "panic"} /\ Policy.present /\ Policy.validate = "true"
        /\ Presented /\ ~Verifies) =>
        (ValidationValues = {"invalid"} /\ NormalResponse)

\* C13: with validation requested, a presented token that fails verification
\* and whose claims agree with the values the policy requires does not abort
\* the request: the response has x-jwt-validation: invalid and is the
\* configured one
C13_InvalidTokenServed ==
    (pc \in {"done", "panic"} /\ Policy.present /\ Policy.validate = "true"
        /\ Presented /\ ~Verifies
        /\ ~ClaimMismatch(Policy, rq.token.claims)) =>
        (ValidationValues = {"invalid"} /\ NormalResponse)

C13_Witness ==
    /\ pc = "done"
    /\ Policy.present /\ Policy.validate = "true" /\ Policy.keyVals # <<>>
    /\ server.jwt.present /\ Presented /\ ~Verifies
    /\ ValidationValues = {"invalid"}
    /\ w.calls = <<404>>
    /\ ~Configured.jwt.present

\* C14: with validation unset or false, a presented token that fails to parse
\* or to verify gets a 500 and the handler of the descriptor never runs
C14_UnvalidatedTokenAborts ==
    (Policy.present /\ Policy.validate # "true"
        /\ (rq.token.kind = "malformed" \/ (Presented /\ ~Verifies))) =>
        /\ pc \in {"jwt", "done"}
        /\ selLog = <<>> /\ trace = <<>>
        /\ pc = "done" => (w.calls = <<500>> /\ w.body = <<ErrorBody(500)>>)

C14_Witness ==
    /\ pc = "done"
    /\ Policy.present /\ Policy.validate = "false"
    /\ server.jwt.present /\ Presented /\ ~Verifies
    /\ w.calls = <<500>>

\* C15: the x-jwt-validation header is on a response only if the policy of
\* the descriptor requests validation, its value is valid iff the token
\* verified, and a token that parses under such a policy always gets it
C15_ValidationHeader ==
    /\ ValidationValues # {} =>
          /\ Policy.present /\ Policy.validate = "true" /\ Presented
          /\ ValidationValues = {IF Verifies THEN "valid" ELSE "invalid"}
    /\ (pc = "done" /\ Policy.present /\ Policy.validate = "true" /\ Presented) =>
          ValidationValues # {}

C15_Witness ==
    /\ pc = "done"
    /\ Policy.validate = "true" /\ Presented /\ Verifies
    /\ ValidationValues = {"valid"}
    /\ selLog # <<>>

\* the token the encoder mints from a claim set under a key
Mint(cs, k) ==
    MarshalJWT(ConfigJWT("jwt1", "HS256", k), RespJWT("jwt1", "", "", cs), k)

\* C16: a token minted from a claim set under the key of the server is
\* accepted by the decoder and yields that claim set; one minted under
\* another key is not valid
C16_RoundTrip ==
    \A cs \in ClaimSets, k \in Keys :
        (server.jwt.present /\ rq.token = Mint(cs, k) /\ ~ctxTok.nil) =>
            IF k = server.jwt.secret
            THEN ctxTok.valid /\ ctxTok.claims = cs
            ELSE ~ctxTok.valid

\* where the response holds the token t
TokenPlaces(t) ==
    {"header" : p \in {q \in w.hdr : q[1] = Configured.jwt.key}} \cup
    {"cookie" : p \in {q \in w.cookies : q[1] = Configured.jwt.key}} \cup
    {"body" : i \in {n \in 1..Len(w.body) : w.body[n] = TokenBody(t)}}

\* the tokens the response holds, wherever they are
TokensSent ==
    {p[2] : p \in {q \in w.hdr : q[1] = Configured.jwt.key}} \cup
    {p[2] : p \in w.cookies} \cup
    {w.body[n][2] : n \in {i \in 1..Len(w.body) :
                              Len(w.body[i]) = 2 /\ w.body[i][1] = -1}}

\* C17: the token of a response with a JWT block is in the one place its
\* output names (header, cookie, else the body), the body is empty for header
\* and cookie, and the body of the response is never evaluated
C17_OneTokenLocation ==
    (Configured.jwt.present /\ pc = "done" /\ selLog # <<>>) =>
        /\ "execBodyOutput" \notin Range(trace)
        /\ "execBodyValueOutput" \notin Range(trace)
        /\ IF server.jwt.present
           THEN /\ TokenPlaces(MarshalJWT(server.jwt, Configured.jwt, UseJWT(server))) =
                      {IF Configured.jwt.output \in {"header", "cookie"}
                       THEN Configured.jwt.output ELSE "body"}
                /\ Cardinality(TokensSent) = 1
                /\ Configured.jwt.output \in {"header", "cookie"} =>
                      w.body = <<EmptyBody>>
           ELSE TokensSent = {}

C17_Witness ==
    /\ pc = "done"
    /\ Configured.jwt.present /\ Configured.jwt.output = "cookie"
    /\ server.jwt.present
    /\ w.cookies # {}
    /\ w.body = <<EmptyBody>>

\* C18: a token sent to a client holds the secret of the server in its claims
\* only if the configured claims of the response hold it
C18_KeyOnlyIfConfigured ==
    \A t \in TokensSent :
        (\E n \in DOMAIN t.claims : t.claims[n] = server.jwt.secret) =>
            (\E n \in DOMAIN Configured.jwt.claims :
                Configured.jwt.claims[n] = server.jwt.secret)

\* ------------------------------------------------------------------ proxies
\* the selected response has a status that is no number
Proxied == selLog # <<>> /\ StatusOf(st.res) \notin NumericStatus

\* C19: a response whose status is no number is handed to the proxy of that
\* name and the state machine ends there: no expression context, no header
\* of the response on the client's response, no body evaluated, no finish
C19_ProxyEndsStateMachine ==
    (pc = "done" /\ Proxied) =>
        /\ trace = <<"execOrder", "execPrePluginRequestHTTP", "execDelay",
                     "execStatus", "execProxyHTTP">>
        /\ ~st.vars
        /\ w.hdr = {}
        /\ IF server.proxy.present /\ server.proxy.name = st.res.status
           THEN /\ Len(fwd) = 1 /\ fwd[1].target = st.res.status
                /\ Len(w.calls) = 1 /\ w.calls[1] \in UpstreamStatus
                /\ w.body = <<ProxyBody(st.res.status)>>
           ELSE fwd = <<>> /\ w.calls = <<>>

C19_Witness ==
    /\ pc = "done"
    /\ Proxied
    /\ st.res.hdrs.present
    /\ fwd # <<>>
    /\ w.calls = <<200>>

\* the one value a header block sets for a name
Sets(block, k) == block.present /\ k \in DOMAIN block.data
ValueOf(block, k) == <<block.data[k][Len(block.data[k])]>>

\* C20: the headers of the forwarded request are those of the inbound
\* request, overridden by the proxy's, overridden by the response's
C20_ResponseHeadersWin ==
    \A i \in 1..Len(fwd) : \A k \in HeaderNames :
        fwd[i].hdr[k] =
            IF Sets(st.res.hdrs, k) THEN ValueOf(st.res.hdrs, k)
            ELSE IF Sets(server.proxy.headers, k) THEN ValueOf(server.proxy.headers, k)
            ELSE rq.hdr[k]

\* ------------------------------------------------------- concurrent selects
\* the response ids selected with the counter values of cycle c
IdsOfCycle(c) ==
    {x[2] : x \in {y \in sel : y[1] \in (c * NResp(1))..((c + 1) * NResp(1) - 1)}}

\* the counter values whose Select step is finished
Finished == {x[1] : x \in sel}

\* C24: with order "unordered", once the N Select steps of the counter values
\* of one cycle are finished they have returned N distinct responses
C24_ConcurrentCyclePermutation ==
    route[1].order = "unordered" =>
        \A c \in 0..0 :
            ((c * NResp(1))..((c + 1) * NResp(1) - 1)) \subseteq Finished =>
                IdsOfCycle(c) = 1..NResp(1)

\* how often response k was selected with the counter values v .. v + 2N - 1
TimesIn(k, v) ==
    Cardinality({x \in sel : x[2] = k /\ x[1] \in v..(v + 2 * NResp(1) - 1)})

OutputErrors == {"ErrBadHCLExpression", "ErrMarshalJWT", "ErrJWTConfigurationNotFound"}

\* the headers the response selected declares
Declared ==
    IF ~st.res.hdrs.present THEN {}
    ELSE UNION {{<<k, st.res.hdrs.data[k][i]>> : i \in 1..Len(st.res.hdrs.data[k])} :
                   k \in DOMAIN st.res.hdrs.data}

\* C27: when the output step fails after the response headers were applied,
\* the error response carries every header the response declares
C27_HeadersOnErrorResponse ==
    (st.err \in OutputErrors /\ w.calls # <<>>) => Declared \subseteq w.hdr


\* ------------------------------------------------------- the order of steps
\* the place of a state in the fixed order: Select, Pre-hooks, Delay, Resolve
\* status, then the proxy or the expression context, the response headers,
\* the output and the write
StepRank(name) ==
    CASE name = "execOrder" -> 1
      [] name = "execPrePluginRequestHTTP" -> 2
      [] name = "execDelay" -> 3
      [] name = "execStatus" -> 4
      [] name = "execProxyHTTP" -> 5
      [] name = "execAddVariables" -> 5
      [] name = "execAddFunctions" -> 6
      [] name = "execResponseHeaders" -> 7
      [] name = "execOutput" -> 8
      [] name = "execJWTOutput" -> 9
      [] name = "execBodyOutput" -> 9
      [] name = "execBodyValueOutput" -> 10
      [] OTHER -> 11

\* C26: the steps executed for one request are in the fixed order, each at
\* most once, and a step that sets an error is the last one executed
C26_FixedStepOrder ==
    /\ \A i, j \in DOMAIN trace : i < j => StepRank(trace[i]) < StepRank(trace[j])
    /\ st.err # "" => trace # <<>> /\ trace[Len(trace)] # "finish"


\* C28: with two POST descriptors on a path, a request whose posted fields
\* fail the requirement of the first is offered to the second before a 404
\* is written
C28_PostMismatchFallsThrough ==
    (/\ pc = "done"
     /\ rq.method = "POST"
     /\ rq.formOK
     /\ Len(Cands("POST")) = 2
     /\ ~PostedMatch(Cands("POST")[1], rq)) =>
        attempts = Cands("POST")


\* ------------------------------------------------------- the reloaded-on time
\* the time of the last decode that succeeded among the first n (0: none)
RECURSIVE LastSuccess(_)
LastSuccess(n) ==
    IF n = 0 THEN 0 ELSE IF loadLog[n] THEN n ELSE LastSuccess(n - 1)

\* C29: a response served in the invalid state shows as "reloaded on" the
\* time of the last load that succeeded
C29_ReloadedOnLastSuccess ==
    lastAnswer.reloadError =>
        lastAnswer.reloadedOn = LastSuccess(lastAnswer.after)


\* C30: a panic in the loop of run() is recovered and a failure record of
\* kind panic is saved before the process ends
C30_PanicRecorded ==
    rpc \in {"panic", "exit"} =>
        /\ rpc = "exit"
        /\ records # <<>>
        /\ records[Len(records)] = "panic"


\* ------------------------------------------------------------------ drains
\* C21: a signal sent while run() is in reloadDrain is dropped: no reload
\* cycle is started by it after the listeners have restarted
C21_DrainedSignalsDiscarded ==
    ~trig

\* C22: the completion channel is closed only when the Shutdown call of every
\* listener has returned, and run() decodes the files again only then
C22_CompletionAfterShutdowns ==
    /\ completion => \A s \in DOMAIN gor : gor[s] = "end"
    /\ orch = "load" => \A s \in DOMAIN gor : gor[s] = "end"

C22_Witness ==
    /\ orch = "load"
    /\ NSrv = MaxSrv
    /\ req.survived

\* C23: the two reads a request makes of the shared Config see one decode
C23_OneGenerationPerRequest ==
    req.pc = "done" => req.status = req.body


\* ------------------------------------------------------ the errors endpoint
\* C31: the errors endpoint returns every record save has written, of either
\* kind, newest first: after n failures its output is the records n, .., 1
C31_AllRecordsNewestFirst ==
    listing.out = [i \in 1..listing.n |-> listing.n + 1 - i]

\* ------------------------------------------------- inbound token locations
\* the request in flight is over: answered, or its goroutine panicked
Over == pc \in {"done", "panic"}

\* the request went through the filter to the handler of the descriptor
ReachedHandler == pc = "done" /\ selLog # <<>> /\ w.calls = <<Atoi(Configured.status)>>

\* C32: under a policy that requests validation, at any of the four
\* locations, a request whose token is missing or does not verify is not
\* aborted: it reaches the handler of the descriptor
C32_ToleratedAtEveryLocation ==
    (Over /\ Policy.input \in JwtInputs /\ Policy.validate = "true"
        /\ ~(Presented /\ Verifies)) => ReachedHandler

\* the token of the request carries every claim the policy constrains, with
\* the value the policy requires
ClaimsSatisfied ==
    \A k \in DOMAIN Policy.keyVals :
        k \in DOMAIN rq.token.claims /\ rq.token.claims[k] = Policy.keyVals[k]

\* C33: a request reaches the handler of a descriptor with a token policy
\* only if its token has every constrained claim with the required value
C33_ClaimEqualityFilter ==
    (Policy.present /\ pc # "jwt" /\ selLog # <<>>) => ClaimsSatisfied

\* --------------------------------------------------- the expression context
\* what the context actions leave alone
CtxOffVars == <<reqVars, runVars, conVars, panVars, drnVars, errVars, tplVars, cmpVars>>

\* io.LimitReader(st.r.Body, (2^20)*10): ^ is the exclusive or of Go, 2^20 is 22
ReadLimit == 220

\* the sizes of the bodies sent, in bytes, and the content types: a form
\* (application/x-www-form-urlencoded), and one ParseForm does not read
BodyLens == {0, 3, ReadLimit, ReadLimit + 80}
ContentTypes == {"form", "json"}

\* header, query and form values: none, or the name a with one value
Params == {<<>>, [a |-> <<"1">>]}

\* cty.NilVal, and cty.ObjectVal of a map
NilVal == [nil |-> TRUE, obj |-> <<>>]
ObjectVal(m) == [nil |-> FALSE, obj |-> m]

Min(a, b) == IF a < b THEN a ELSE b

\* the bytes of the body between two offsets; every empty string is the same
Bytes(from, to) == IF from = to THEN <<0, 0>> ELSE <<from, to>>

\* ioutil.ReadAll(io.LimitReader(body, n)): the offset the body is left at
ReadTo(r, n) == Min(r.len, r.pos + n)

\* r.ParseForm() of checkRequestPost: r.Form gets the values of the query,
\* and for a form the body is read to its end
ParseForm ==
    /\ xreq.method = "POST"
    /\ ~xreq.parsed
    /\ built = <<>>
    /\ xreq' = [xreq EXCEPT !.parsed = TRUE,
                            !.form = xreq.query,
                            !.pos = IF xreq.ctype = "form" THEN xreq.len ELSE @]
    /\ UNCHANGED <<built, CtxOffVars>>

\* execVarCtxRequest: nothing unless the method is POST; else the body is
\* read through the limit reader
ExecVarCtxRequest(r) ==
    IF r.method # "POST" THEN NilVal
    ELSE ObjectVal([body |-> Bytes(r.pos, ReadTo(r, ReadLimit))])

\* execVarCtxHeader, execVarCtxPost: nothing for no values, else the values
ExecVarCtxHeader(r) == IF r.hdr = <<>> THEN NilVal ELSE ObjectVal(r.hdr)
ExecVarCtxPost(r) == IF r.form = <<>> THEN NilVal ELSE ObjectVal(r.form)

\* execVarCtxQuery: for no values the nil value is set and, for want of a
\* return, overwritten by the object of the empty map
ExecVarCtxQuery(r) == ObjectVal(r.query)

\* execAddVariables on a new map: the variable set st.vars (no URL
\* parameter, no token and no plugin here)
ExecAddVariablesVars(r) ==
    [request |-> ExecVarCtxRequest(r), header |-> ExecVarCtxHeader(r),
     query |-> ExecVarCtxQuery(r), url |-> NilVal, post |-> ExecVarCtxPost(r),
     jwt |-> NilVal, plugin |-> NilVal]

\* the request after the step: the body is where the read left it
AfterVariables(r) ==
    IF r.method # "POST" THEN r ELSE [r EXCEPT !.pos = ReadTo(r, ReadLimit)]

\* execAddVariables with the steps it hands over to, up to st.vars = varsCtx;
\* a POST has been through checkRequestPost before
ExecAddVariables ==
    /\ Len(built) < MaxBuilds
    /\ xreq.method = "POST" => xreq.parsed
    /\ built' = Append(built, [vars |-> ExecAddVariablesVars(xreq), before |-> xreq])
    /\ xreq' = AfterVariables(xreq)
    /\ UNCHANGED CtxOffVars

InitCtx ==
    /\ ReqOff
    /\ RunOff
    /\ ConcOff
    /\ DrainOff
    /\ ErrOff
    /\ TplOff
    /\ CmpOff
    /\ built = <<>>
    /\ \E m \in Methods, ct \in ContentTypes, n \in BodyLens, h \in Params, q \in Params :
          /\ (m = "GET" => (n = 0 /\ ct = "json"))
          /\ xreq = [method |-> m, ctype |-> ct, parsed |-> FALSE, len |-> n, pos |-> 0,
                     hdr |-> h, query |-> q, form |-> <<>>]

NextCtx ==
    \/ ParseForm
    \/ ExecAddVariables

\* the context-building step, run on one request
SpecCtx == InitCtx /\ [][NextCtx]_vars

\* C34: the runs of the context-building step on one request yield the same
\* variable set, and leave the request as it was before the first
C34_ContextIdempotent ==
    /\ \A i, j \in DOMAIN built : built[i].vars = built[j].vars
    /\ built # <<>> => xreq = built[1].before

\* ------------------------------------------------------- body templates
\* what the template actions leave alone
TplOffVars == <<reqVars, runVars, conVars, panVars, drnVars, errVars, ctxVars, cmpVars>>

\* the roots whose values are lists, and those whose values are strings
ListRoots == {"header", "query", "post"}
StringRoots == {"url", "jwt"}

\* a part of a template: a literal, or a reference root.name followed by n
\* index steps (hclsyntax.ScopeTraversalExpr)
Lit == [root |-> "lit", n |-> 0]
Ref(root, n) == [root |-> root, n |-> n]

\* the parts the templates are written with: references bare and indexed
PartChoices ==
    {Lit} \cup {Ref(r, n) : r \in ListRoots, n \in {0, 1}} \cup {Ref(r, 0) : r \in StringRoots}

\* the body expressions the parser yields: a hclsyntax.TemplateWrapExpr for
\* one interpolation alone, else a hclsyntax.TemplateExpr
Templates ==
    {[wrap |-> TRUE, orig |-> <<p>>, parts |-> <<p>>] : p \in PartChoices \ {Lit}} \cup
    {[wrap |-> FALSE, orig |-> ps, parts |-> ps] :
        ps \in {<<Lit>>} \cup UNION {[1..n -> PartChoices] : n \in 2..MaxParts}}

\* execBodyTemplateOutput from part i on: a part with a root other than
\* header, query and post, or with an index, ends the loop over the parts
\* (break LookForIndexes); else an index 0 is appended to its traversal
RECURSIVE LookForIndexes(_, _)
LookForIndexes(parts, i) ==
    IF i > Len(parts) THEN parts
    ELSE IF parts[i] = Lit THEN LookForIndexes(parts, i + 1)
    ELSE IF parts[i].root \notin ListRoots \/ parts[i].n > 0 THEN parts
    ELSE LookForIndexes([parts EXCEPT ![i].n = @ + 1], i + 1)

\* execBodyTemplateOutput
ExecBodyTemplateOutput(parts) == LookForIndexes(parts, 1)

\* the value of a part in a context that has every name referred to: a
\* string root gives the string; a list root gives the object of the values,
\* its value at position 0 after one index, and no value after more
PartValue(p) ==
    IF p = Lit THEN <<"lit", "">>
    ELSE IF p.root \in StringRoots THEN <<p.root, "">>
    ELSE IF p.n = 0 THEN <<p.root, "object">>
    ELSE IF p.n = 1 THEN <<p.root, "0">>
    ELSE <<p.root, "error">>

\* execBodyValueOutput: a template of several parts takes strings only; one
\* interpolation alone may yield an object, which is written as JSON
ExecBodyValueOutput(t) ==
    LET vals == [i \in DOMAIN t.parts |-> PartValue(t.parts[i])] IN
    IF \E i \in DOMAIN vals : vals[i][2] = "error" \/ (~t.wrap /\ vals[i][2] = "object")
    THEN [status |-> 400, body |-> <<>>]
    ELSE [status |-> 200, body |-> vals]

\* execBodyOutput on the body expression, for one request, to the end of the
\* state machine
ExecBodyExpr ==
    /\ Len(outs) < MaxEvals
    /\ tpl.orig # <<>>
    /\ LET t == IF tpl.wrap THEN tpl
                ELSE [tpl EXCEPT !.parts = ExecBodyTemplateOutput(tpl.parts)]
       IN  /\ tpl' = t
           /\ outs' = Append(outs, ExecBodyValueOutput(t))
    /\ UNCHANGED TplOffVars

InitTpl ==
    /\ ReqOff
    /\ RunOff
    /\ ConcOff
    /\ DrainOff
    /\ ErrOff
    /\ CtxOff
    /\ CmpOff
    /\ tpl \in Templates
    /\ outs = <<>>

NextTpl ==
    \/ ExecBodyExpr

\* body templates, evaluated request after request
SpecTpl == InitTpl /\ [][NextTpl]_vars

\* the body a template is to give: every part as written, a bare reference to
\* a list root read at position 0
ImpliedZero(p) == IF p.root \in ListRoots /\ p.n = 0 THEN Ref(p.root, 1) ELSE p
Intended(orig) == [i \in DOMAIN orig |-> PartValue(ImpliedZero(orig[i]))]

\* C35: every request gets the body in which each bare header, query and
\* post reference of the template is the value at position 0 and each
\* indexed reference is as written
C35_ImpliedZeroIndex ==
    \A k \in DOMAIN outs : outs[k] = [status |-> 200, body |-> Intended(tpl.orig)]

\* ---------------------------------------------------------------- shutdown
\* run() has returned "Done" with every listener stopped
RunDone == orch = "done" /\ \A i \in DOMAIN gor : gor[i] = "end"

\* C36: run() never sends its drain request on the shutdown channel once the
\* signal handler has closed it, and after a termination signal every
\* listener is stopped in the end and run() returns "Done"
C36_SignalEndsRun ==
    /\ [](orch # "panic")
    /\ shutdownCh.closed ~> RunDone

\* ------------------------------------------------------ route compilation
\* what the compile action leaves alone
CmpOffVars == <<reqVars, runVars, conVars, panVars, drnVars, errVars, ctxVars, tplVars>>

\* a part of a Method string between two "|": the name of a method, written
\* with or without a space beside it ("get | post")
MethodPart(m, p) == [name |-> m, pad |-> p]
MethodParts == {MethodPart(m, p) : m \in Methods, p \in BOOLEAN}

\* the Method strings: one method, or two different ones
MethodStrings ==
    {<<a>> : a \in MethodParts} \cup
    {ab \in MethodParts \X MethodParts : ab[1].name # ab[2].name}

\* the first loop: is[strings.ToUpper(method)]++, the part as written
IsCount(rq0, key) ==
    Cardinality({<<i, j>> \in (DOMAIN rq0) \X (1..2) : j <= Len(rq0[i]) /\ rq0[i][j] = key})

\* strings.ToUpper(strings.TrimSpace(method)), as a key of multiResponse
Trimmed(part) == MethodPart(part.name, FALSE)

\* len(multiResponse[key].hfs): the count of the key, 0 for a key that is
\* not in the map
HfsLen(rq0, key) == IsCount(rq0, key)

\* multiResponse[method].hfs[i] = ..., for descriptor i (from 0 in the code):
\* in range only if i is below the length
StoreInRange(rq0, i, part) == i - 1 < HfsLen(rq0, Trimmed(part))

\* the slots of a key after the fill loop (0: never stored to)
HfsSlots(rq0, key) ==
    [k \in 1..HfsLen(rq0, key) |->
        IF \E j \in 1..Len(rq0[k]) : Trimmed(rq0[k][j]) = key THEN k ELSE 0]

\* the route loop of _http on one route: the counts, the fill and the
\* collect loop; a store out of range panics
HttpRoute(rq0) ==
    IF \E i \in DOMAIN rq0 : \E j \in 1..Len(rq0[i]) : ~StoreInRange(rq0, i, rq0[i][j])
    THEN [state |-> "panic", table |-> <<>>]
    ELSE [state |-> "ok",
          table |-> [m \in {q.name : q \in {x \in MethodParts : IsCount(rq0, x) > 0}} |->
                        HfsSlots(rq0, MethodPart(m, FALSE))]]

\* _http, for one route
CompileRoute ==
    /\ multi.state = "init"
    /\ multi' = HttpRoute(decl)
    /\ UNCHANGED <<decl, CmpOffVars>>

InitCompile ==
    /\ ReqOff
    /\ RunOff
    /\ ConcOff
    /\ DrainOff
    /\ ErrOff
    /\ CtxOff
    /\ TplOff
    /\ decl \in UNION {[1..n -> MethodStrings] : n \in 1..MaxCand}
    /\ multi = NotCompiled

NextCompile == CompileRoute

\* the compilation of the routes, whatever methods their descriptors declare
SpecCompile == InitCompile /\ [][NextCompile]_vars

\* the descriptors of the route that declare method m, in declaration order
DeclaredFor(m) ==
    SelectSeq([k \in DOMAIN decl |-> k],
              LAMBDA k : \E j \in 1..Len(decl[k]) : decl[k][j].name = m)

\* C37: the compilation of a route succeeds, and the candidate list of every
\* method has the descriptors declared for it, in declaration order
C37_CompileEveryRoute ==
    multi.state # "init" =>
        /\ multi.state = "ok"
        /\ DOMAIN multi.table = {m \in Methods : DeclaredFor(m) # <<>>}
        /\ \A m \in DOMAIN multi.table : multi.table[m] = DeclaredFor(m)

\* ------------------------------------------------ outcomes of the token filter
\* C38: a request to a descriptor with a token policy ends answered: it was
\* passed to the handler, with the validation header if the policy requests
\* validation of a token presented, or it was aborted with 500; the filter
\* never panics on a token that is absent
C38_FilterOutcomes ==
    (Policy.present /\ Over) =>
        /\ pc = "done"
        /\ \/ w.calls = <<500>> /\ selLog = <<>>
           \/ ReachedHandler

\* ------------------------------------------------- the counter, per request
\* the request in flight reached the Select step of descriptor d: execOrder
\* chose a response, or panicked on an empty list
ReachedSelect(d) ==
    \/ SelectsOf(d) # {}
    \/ pc = "panic" /\ cand = d /\ NResp(d) = 0

\* the request in flight was tried on descriptor d and fails one of its filters
RejectedBy(d) == (\E i \in 1..Len(attempts) : attempts[i] = d) /\ ~Passes(d, rq)

\* the request in flight is the first since the handlers were built
FirstRequest == \A m \in DOMAIN nreq : nreq[m] = (IF m = rq.method THEN 1 ELSE 0)

\* C39: the counter of a handler never exceeds the requests sent; after a
\* first request it is 1 for the descriptors whose Select step the request
\* reached, unless their order is random, and 0 for every other; it is 0 for
\* a descriptor whose filters reject the request
C39_CounterPerRequest ==
    /\ \A h \in DOMAIN idx : idx[h] <= nreq[h[2]]
    /\ (Over /\ FirstRequest) =>
          \A h \in DOMAIN idx :
             /\ idx[h] = IF h[2] = rq.method /\ ReachedSelect(h[1])
                             /\ route[h[1]].order # "random"
                          THEN 1 ELSE 0
             /\ (h[2] = rq.method /\ RejectedBy(h[1])) => idx[h] = 0
====
